---- MODULE Spec2Model ----
(***************************************************************************)
(* drizzle-llm: the change categorizer, the query identity hash, the       *)
(* tagged-template collector, the file cache and the two build drivers     *)
(* (the Vite plugin's generateQueries and the CLI's buildQueries).         *)
(*                                                                         *)
(* Text is a sequence of one-character strings, so that trim() and the     *)
(* delimiter stripping are computed and not assumed.  JSON.stringify is a  *)
(* sequence of tokens.  md5 and sha256 are modelled as collision free: a   *)
(* digest is the tagged content it was computed from.                      *)
(***************************************************************************)
EXTENDS Integers, Sequences, FiniteSets, TLC

VARIABLES
  call,        \* the arguments of the pure function under check
  ret,         \* its result
  now,         \* Date.now(), in milliseconds
  ticks,       \* how many times the clock has advanced
  dirExists,   \* existsSync(cacheDir)
  files,       \* the cache directory: cache key -> file content
  lastSet,     \* history: cache key -> what the last effective set() stored
  lastOp,      \* the last cache call and what it returned
  faults,      \* the file-system calls that fail at present
  source,      \* what collectQueries finds in the current source tree
  outputFile,  \* the plugin's centralized output file (config.paths.output)
  queryFiles,  \* the distributed *.query.ts files: source file -> queries
  sqlFiles,    \* the *.sql files of the CLI build: source file -> queries
  synced,      \* history: the driver whose last build generated every query
  lastBuild    \* the last build: what it loaded, categorized, generated, wrote

vars == <<call, ret, now, ticks, dirExists, files, lastSet, lastOp, faults,
          source, outputFile, queryFiles, sqlFiles, synced, lastBuild>>

pureVars  == <<call, ret>>
cacheVars == <<now, ticks, dirExists, files, lastSet, lastOp, faults>>
buildVars == <<source, outputFile, queryFiles, sqlFiles, synced, lastBuild>>

----------------------------------------------------------------------------
(* Bounds *)

MaxQueries == 2      \* length of currentQueries handed to categorizeQueries
MaxProps == 2        \* properties written in a params object literal
MaxLit == 1          \* characters of one literal segment of a template
MaxSpans == 2        \* interpolations of a template
MaxTicks == 2        \* times the clock advances

----------------------------------------------------------------------------
(* JavaScript values *)

\* The value undefined where a string is expected (returnType, sourceFile).
Undefined == "undefined"

\* An optional object: params?: Record<string, any>.  props is the object's
\* own properties in property order, each <<key, JSON text of the value>>.
NoParams == [isDefined |-> FALSE, props |-> <<>>]
Obj(props) == [isDefined |-> TRUE, props |-> props]

Whitespace == {" "}

RECURSIVE TrimStart(_)
TrimStart(s) ==
  IF s # <<>> /\ Head(s) \in Whitespace THEN TrimStart(Tail(s)) ELSE s

RECURSIVE TrimEnd(_)
TrimEnd(s) ==
  IF s # <<>> /\ s[Len(s)] \in Whitespace
    THEN TrimEnd(SubSeq(s, 1, Len(s) - 1))
    ELSE s

\* String.prototype.trim
Trim(s) == TrimEnd(TrimStart(s))


\* JSON text of a string value
JsonString(s) == <<"\"">> \o s \o <<"\"">>

RECURSIVE JsonMembers(_)
JsonMembers(members) ==
  IF members = <<>> THEN <<>>
  ELSE <<"\"", Head(members)[1], "\"", ":">> \o Head(members)[2]
         \o (IF Tail(members) = <<>> THEN <<>> ELSE <<",">>)
         \o JsonMembers(Tail(members))

\* JSON.stringify of an object whose members, in property order, are
\* <<key, JSON text of the value>>.
JsonObject(members) == <<"{">> \o JsonMembers(members) \o <<"}">>

\* A member whose value is undefined is left out by JSON.stringify.
Member(key, present, text) == IF present THEN << <<key, text>> >> ELSE <<>>

\* createHash('md5').update(content).digest('hex'), collision free
Md5(content) == <<"md5">> \o content

\* createHash('sha256').update(content).digest('hex'), collision free
Sha256(content) == <<"sha256">> \o content

Range(s) == {s[i] : i \in 1..Len(s)}

SeqsUpTo(S, n) == UNION {[1..k -> S] : k \in 0..n}

----------------------------------------------------------------------------
(* Change categorizer: plugin.ts *)

\* params || {}
ParamsOrEmpty(params) == IF params.isDefined THEN params.props ELSE <<>>

\* generateQueryHash: md5 over {intent.trim(), params || {}, returnType}
generateQueryHash(query) ==
  Md5(JsonObject(
    Member("intent", TRUE, JsonString(Trim(query.intent)))
    \o Member("params", TRUE, JsonObject(ParamsOrEmpty(query.params)))
    \o Member("returnType", query.returnType # Undefined,
              JsonString(<<query.returnType>>))))

\* existingQueries: Record<string, GeneratedQuery>, as the set of its values;
\* the entry stored under an id carries that id.
HasEntry(existingQueries, id) == \E e \in existingQueries : e.id = id
Entry(existingQueries, id) == CHOOSE e \in existingQueries : e.id = id

\* Mutant: the stored hash is compared although the entry records an intent.
categorizeOneHashFirst(query, existingQueries) ==
  IF ~HasEntry(existingQueries, query.id) THEN "invalid"
  ELSE LET existingQuery == Entry(existingQueries, query.id) IN
    IF generateQueryHash(query) = existingQuery.hash THEN "valid"
    ELSE IF existingQuery.intent # <<>>
              /\ Trim(query.intent) = Trim(existingQuery.intent)
           THEN "valid" ELSE "changed"

\* The bucket one query of the loop body of categorizeQueries is pushed to.
categorizeOne(query, existingQueries) ==
  IF ~HasEntry(existingQueries, query.id) THEN "invalid"
  ELSE LET existingQuery == Entry(existingQueries, query.id) IN
    IF existingQuery.intent # <<>>
      THEN IF Trim(query.intent) = Trim(existingQuery.intent)
             THEN "valid" ELSE "changed"
      ELSE IF generateQueryHash(query) = existingQuery.hash
             THEN "valid" ELSE "changed"

EmptyBuckets == [validQueries |-> <<>>, invalidQueries |-> <<>>,
                 changedQueries |-> <<>>]

\* Mutant: the else of the intent comparison is lost, so a changed query is
\* pushed to validQueries as well.
PushFallThrough(buckets, bucket, query) ==
  CASE bucket = "valid" ->
         [buckets EXCEPT !.validQueries = Append(@, query)]
    [] bucket = "invalid" ->
         [buckets EXCEPT !.invalidQueries = Append(@, query)]
    [] bucket = "changed" ->
         [buckets EXCEPT !.validQueries = Append(@, query),
                         !.changedQueries = Append(@, query)]

Push(buckets, bucket, query) ==
  CASE bucket = "valid" ->
         [buckets EXCEPT !.validQueries = Append(@, query)]
    [] bucket = "invalid" ->
         [buckets EXCEPT !.invalidQueries = Append(@, query)]
    [] bucket = "changed" ->
         [buckets EXCEPT !.changedQueries = Append(@, query)]

RECURSIVE categorizeLoop(_, _, _)
categorizeLoop(currentQueries, existingQueries, buckets) ==
  IF currentQueries = <<>> THEN buckets
  ELSE categorizeLoop(Tail(currentQueries), existingQueries,
         Push(buckets,
              categorizeOne(Head(currentQueries), existingQueries),
              Head(currentQueries)))

\* categorizeQueries(currentQueries, existingQueries, cache); cache is unused
categorizeQueries(currentQueries, existingQueries) ==
  categorizeLoop(currentQueries, existingQueries, EmptyBuckets)

\* core/build.ts keeps its own copy of the loop body: with no stored intent it
\* compares the ids instead of the hashes.
buildCategorizeOne(query, existingQueries) ==
  IF ~HasEntry(existingQueries, query.id) THEN "invalid"
  ELSE LET existingQuery == Entry(existingQueries, query.id) IN
    IF existingQuery.intent # <<>>
      THEN IF Trim(query.intent) = Trim(existingQuery.intent)
             THEN "valid" ELSE "changed"
      ELSE IF query.id = existingQuery.id
             THEN "valid" ELSE "changed"

RECURSIVE buildCategorizeLoop(_, _, _)
buildCategorizeLoop(currentQueries, existingQueries, buckets) ==
  IF currentQueries = <<>> THEN buckets
  ELSE buildCategorizeLoop(Tail(currentQueries), existingQueries,
         Push(buckets,
              buildCategorizeOne(Head(currentQueries), existingQueries),
              Head(currentQueries)))

\* categorizeQueries of core/build.ts
buildCategorizeQueries(currentQueries, existingQueries) ==
  buildCategorizeLoop(currentQueries, existingQueries, EmptyBuckets)

----------------------------------------------------------------------------
(* Inputs of the categorizer *)

CatIds == {<<"id1">>, <<"id2">>}
CatIntents == {<<"a">>, <<" ", "a">>, <<"b">>}
CatShapes ==
  { [params |-> NoParams, returnType |-> Undefined],
    [params |-> Obj(<< <<"k", <<"1">> >> >>), returnType |-> "User"] }

CatQueries ==
  { [id |-> i, intent |-> t, params |-> s.params, returnType |-> s.returnType]
      : i \in CatIds, t \in CatIntents, s \in CatShapes }

SqlHash == Md5(JsonObject(<< <<"sql", JsonString(<<"S">>)>> >>))

CatEntryIntents == {<<>>, <<"a">>, <<"a", " ">>, <<" ">>}
CatEntryHashes ==
  { generateQueryHash([intent |-> <<"a">>, params |-> NoParams,
                       returnType |-> Undefined]),
    SqlHash }

CatEntries(i) ==
  { [id |-> i, intent |-> t, hash |-> h]
      : t \in CatEntryIntents, h \in CatEntryHashes }

CatExisting ==
  { es \in SUBSET (UNION {CatEntries(i) : i \in CatIds}) :
      \A e1, e2 \in es : e1.id = e2.id => e1 = e2 }

NoRet == [done |-> FALSE]

InitIdle ==
  /\ now = 0 /\ ticks = 0 /\ dirExists = FALSE
  /\ files = <<>> /\ lastSet = <<>> /\ lastOp = [op |-> "none"]
  /\ faults = {}
  /\ source = <<>> /\ outputFile = [exists |-> FALSE, queries |-> <<>>]
  /\ queryFiles = <<>> /\ sqlFiles = <<>>
  /\ synced = "none" /\ lastBuild = [kind |-> "none"]

InitCat ==
  /\ call \in [fn : {"plugin.categorizeQueries", "build.categorizeQueries"},
               currentQueries : SeqsUpTo(CatQueries, MaxQueries),
               existingQueries : CatExisting]
  /\ ret = NoRet
  /\ InitIdle

PluginCategorize ==
  /\ call.fn = "plugin.categorizeQueries"
  /\ ~ret.done
  /\ ret' = [done |-> TRUE,
             buckets |-> categorizeQueries(call.currentQueries,
                                           call.existingQueries)]
  /\ UNCHANGED <<call, cacheVars, buildVars>>

BuildCategorize ==
  /\ call.fn = "build.categorizeQueries"
  /\ ~ret.done
  /\ ret' = [done |-> TRUE,
             buckets |-> buildCategorizeQueries(call.currentQueries,
                                                call.existingQueries)]
  /\ UNCHANGED <<call, cacheVars, buildVars>>

NextCat == PluginCategorize \/ BuildCategorize

SpecCat == InitCat /\ [][NextCat]_vars

----------------------------------------------------------------------------
(* Claims about the categorizer *)

Keep(seq, bucket) == SelectSeq(seq, LAMBDA q : q \in Range(bucket))

\* C1: categorizeQueries (the plugin's and the copy in core/build.ts) is a
\* partition of currentQueries: the three buckets
\* are pairwise disjoint, together hold exactly the input elements (as many
\* as the input has), and each bucket lists its elements in input order.
C1_Partition ==
  ret.done =>
    LET b == ret.buckets
        cur == call.currentQueries
    IN /\ Range(b.validQueries) \cap Range(b.invalidQueries) = {}
       /\ Range(b.validQueries) \cap Range(b.changedQueries) = {}
       /\ Range(b.invalidQueries) \cap Range(b.changedQueries) = {}
       /\ Range(b.validQueries) \cup Range(b.invalidQueries)
            \cup Range(b.changedQueries) = Range(cur)
       /\ Len(b.validQueries) + Len(b.invalidQueries)
            + Len(b.changedQueries) = Len(cur)
       /\ b.validQueries = Keep(cur, b.validQueries)
       /\ b.invalidQueries = Keep(cur, b.invalidQueries)
       /\ b.changedQueries = Keep(cur, b.changedQueries)

\* C1 witness: two different queries were categorized into two buckets.
C1_Witness ==
  /\ ret.done /\ call.fn = "plugin.categorizeQueries"
  /\ Len(call.currentQueries) = 2
  /\ call.currentQueries[1] # call.currentQueries[2]
  /\ ret.buckets.changedQueries # <<>>
  /\ ret.buckets.validQueries # <<>>

RefQuery == [intent |-> <<"a">>, params |-> NoParams, returnType |-> Undefined]

\* The rule of the claim, for one query.
C2_Rule(q, existing) ==
  IF ~HasEntry(existing, q.id) THEN "invalid"
  ELSE LET e == Entry(existing, q.id) IN
    IF \/ e.intent # <<>> /\ Trim(e.intent) = Trim(q.intent)
       \/ e.intent = <<>> /\ generateQueryHash(q) = e.hash
      THEN "valid" ELSE "changed"

\* C2: a query is invalid iff the map has no entry under its id; else valid
\* iff the entry has a non-empty intent equal to the query's after trimming,
\* or has no intent and stores the hash of {intent.trim(), params or {},
\* returnType}; else changed.  With a non-empty stored intent the bucket is
\* decided by the intents alone; the hash is a hash of exactly the trimmed
\* intent, the params and the return type.
C2_Rule_Holds ==
  ret.done /\ call.fn = "plugin.categorizeQueries" =>
    LET b == ret.buckets
        ex == call.existingQueries
    IN \A q \in Range(call.currentQueries) :
         /\ q \in Range(b.invalidQueries) <=> C2_Rule(q, ex) = "invalid"
         /\ q \in Range(b.validQueries) <=> C2_Rule(q, ex) = "valid"
         /\ q \in Range(b.changedQueries) <=> C2_Rule(q, ex) = "changed"
         /\ HasEntry(ex, q.id) /\ Entry(ex, q.id).intent # <<>> =>
              (q \in Range(b.validQueries)
                 <=> Trim(q.intent) = Trim(Entry(ex, q.id).intent))
         /\ HasEntry(ex, q.id) /\ Entry(ex, q.id).intent = <<>>
              /\ Entry(ex, q.id).hash = generateQueryHash(RefQuery) =>
              (q \in Range(b.validQueries)
                 <=> /\ Trim(q.intent) = Trim(RefQuery.intent)
                     /\ ParamsOrEmpty(q.params) = <<>>
                     /\ q.returnType = Undefined)

\* C2 witness: one query is valid by its hash (the entry has no intent) and
\* another is changed although its hash is the stored one (the entry has an
\* intent, which differs).
C2_Witness ==
  /\ ret.done /\ call.fn = "plugin.categorizeQueries"
  /\ \E q1, q2 \in Range(call.currentQueries) :
       /\ q1 \in Range(ret.buckets.validQueries)
       /\ Entry(call.existingQueries, q1.id).intent = <<>>
       /\ q1.intent = <<" ", "a">>
       /\ q2 \in Range(ret.buckets.changedQueries)
       /\ Entry(call.existingQueries, q2.id).intent # <<>>
       /\ Entry(call.existingQueries, q2.id).hash = generateQueryHash(q2)

----------------------------------------------------------------------------
(* Identity: utils/hash.ts and QueryParser.extractObjectLiteral *)

\* result[name] = value on an object in property order: a new key is added
\* last, a key already present keeps its place and takes the new value.
\* (Keys that are array indices would sort first; the inputs have none.)
RECURSIVE SetProp(_, _, _)
SetProp(props, name, value) ==
  IF props = <<>> THEN << <<name, value>> >>
  ELSE IF Head(props)[1] = name THEN << <<name, value>> >> \o Tail(props)
  ELSE <<Head(props)>> \o SetProp(Tail(props), name, value)

\* The literal decoding of one initializer: a string or numeric literal gives
\* its value, anything else its source text (a string).
InitializerValue(init) ==
  IF init.kind = "NumericLiteral" THEN <<init.text>>
  ELSE JsonString(<<init.text>>)

RECURSIVE extractLoop(_, _)
extractLoop(properties, result) ==
  IF properties = <<>> THEN result
  ELSE extractLoop(Tail(properties),
         SetProp(result, Head(properties).name,
                 InitializerValue(Head(properties).initializer)))

\* extractObjectLiteral(node): the properties in the order they are written
extractObjectLiteral(properties) == Obj(extractLoop(properties, <<>>))

LocationJson(location) ==
  JsonObject(<< <<"file", JsonString(<<location.file>>)>>,
                <<"line", <<ToString(location.line)>> >>,
                <<"column", <<ToString(location.column)>> >> >>)

\* generateQueryId: md5 of JSON.stringify({ intent, params, location })
generateQueryId(intent, params, location) ==
  Md5(JsonObject(
    Member("intent", TRUE, JsonString(intent))
    \o Member("params", params.isDefined, JsonObject(params.props))
    \o Member("location", TRUE, LocationJson(location))))

IdKeys == {"a", "b"}
IdInitializers ==
  { [kind |-> "NumericLiteral", text |-> "1"],
    [kind |-> "Identifier", text |-> "x"] }
IdProperties == [name : IdKeys, initializer : IdInitializers]
IdLocations ==
  { [file |-> "f.ts", line |-> 1, column |-> 1],
    [file |-> "f.ts", line |-> 2, column |-> 1] }

\* A db.llm(intent, {...}) call site; hasParams is false when the second
\* argument is missing.
IdSites ==
  [intent : {<<"a">>, <<"b">>},
   hasParams : BOOLEAN,
   properties : SeqsUpTo(IdProperties, MaxProps),
   location : IdLocations]

SiteParams(site) ==
  IF site.hasParams THEN extractObjectLiteral(site.properties) ELSE NoParams

InitId ==
  /\ call \in { c \in [fn : {"generateQueryId"}, site1 : IdSites,
                        site2 : IdSites] :
                  /\ ~c.site1.hasParams => c.site1.properties = <<>>
                  /\ ~c.site2.hasParams => c.site2.properties = <<>> }
  /\ ret = NoRet
  /\ InitIdle

GenerateIds ==
  /\ call.fn = "generateQueryId"
  /\ ~ret.done
  /\ ret' = [done |-> TRUE,
             id1 |-> generateQueryId(call.site1.intent,
                       SiteParams(call.site1), call.site1.location),
             id2 |-> generateQueryId(call.site2.intent,
                       SiteParams(call.site2), call.site2.location)]
  /\ UNCHANGED <<call, cacheVars, buildVars>>

NextId == GenerateIds

SpecId == InitId /\ [][NextId]_vars

\* The key/value pairs a parameter map holds, whatever their order.
PairsOf(params) == [isDefined |-> params.isDefined, pairs |-> Range(params.props)]

\* C5: two call sites with the same intent, the same location and parameter
\* maps holding the same key/value pairs get the same id, in whatever order
\* the keys are written.
C5_OrderIndependent ==
  ret.done /\ call.fn = "generateQueryId" =>
    ( /\ call.site1.intent = call.site2.intent
      /\ call.site1.location = call.site2.location
      /\ PairsOf(SiteParams(call.site1)) = PairsOf(SiteParams(call.site2))
      => ret.id1 = ret.id2 )

----------------------------------------------------------------------------
(* Tagged templates: QueryParser.extractTemplateQueryInfo *)

\* The backtick character (it cannot be written in a string of this module).
Backtick == "backtick"

StartsWith(s, prefix) ==
  Len(s) >= Len(prefix) /\ SubSeq(s, 1, Len(prefix)) = prefix

EndsWith(s, suffix) ==
  Len(s) >= Len(suffix)
    /\ SubSeq(s, Len(s) - Len(suffix) + 1, Len(s)) = suffix

\* s.slice(n)
DropFirst(s, n) == SubSeq(s, n + 1, Len(s))
\* s.slice(0, -n)
DropLast(s, n) == SubSeq(s, 1, Len(s) - n)

StripStart(s, prefix) ==
  IF StartsWith(s, prefix) THEN DropFirst(s, Len(prefix)) ELSE s
StripEnd(s, suffix) ==
  IF EndsWith(s, suffix) THEN DropLast(s, Len(suffix)) ELSE s

\* getText() of the template's nodes: the literal text with its delimiters
HeadText(text) == <<Backtick>> \o text \o <<"$", "{">>
MiddleText(text) == <<"}">> \o text \o <<"$", "{">>
TailText(text) == <<"}">> \o text \o <<Backtick>>

\* SyntaxKind of TemplateMiddle and TemplateTail in the TypeScript compiler
\* that ts-morph bundles: the numbering differs between compiler releases.
SyntaxKinds ==
  { [TemplateMiddle |-> 16, TemplateTail |-> 17],
    [TemplateMiddle |-> 17, TemplateTail |-> 18] }

\* The text of the literal of one span as appended to the intent.
spanLiteralText(literalText, kind) ==
  LET byKind ==
        IF kind = 218 \/ kind = 18
          THEN StripEnd(StripStart(literalText, <<"}">>), <<"{">>)
        ELSE IF kind = 219 \/ kind = 19
          THEN StripEnd(StripStart(literalText, <<"}">>), <<Backtick>>)
        ELSE literalText
  IN StripEnd(StripStart(byKind, <<"}">>), <<Backtick>>)

Placeholder(paramIndex) == <<"$", "{", ToString(paramIndex), "}">>

RECURSIVE spanLoop(_, _, _, _, _)
spanLoop(spans, paramIndex, intent, params, kinds) ==
  IF paramIndex >= Len(spans) THEN [intent |-> intent, params |-> params]
  ELSE LET span == spans[paramIndex + 1]
           isTail == paramIndex + 1 = Len(spans)
           literalText == IF isTail THEN TailText(span.literal)
                                    ELSE MiddleText(span.literal)
           kind == IF isTail THEN kinds.TemplateTail
                             ELSE kinds.TemplateMiddle
       IN spanLoop(spans, paramIndex + 1,
            intent \o Placeholder(paramIndex)
                   \o spanLiteralText(literalText, kind),
            SetProp(params, "param" \o ToString(paramIndex),
                    JsonString(<<span.expression>>)),
            kinds)

\* extractTemplateQueryInfo: the intent and the params of the llm tag.  A
\* template without interpolation has no spans and its head is its text.
extractTemplateQueryInfo(template, kinds) ==
  IF template.spans = <<>>
    THEN [intent |-> template.head, params |-> NoParams]
    ELSE LET headText == StripEnd(StripStart(HeadText(template.head), <<Backtick>>),
                                  <<"$", "{">>)
             r == spanLoop(template.spans, 0, headText, <<>>, kinds)
         IN [intent |-> r.intent,
             params |-> IF Len(r.params) > 0 THEN Obj(r.params) ELSE NoParams]

\* Literal text of a template segment: no backtick and no "${" in it.
LitChars == {"a", "{", "}"}
LitTexts == SeqsUpTo(LitChars, MaxLit)
TemplateSpans == [expression : {"x", "y"}, literal : LitTexts]
Templates == [head : LitTexts, spans : SeqsUpTo(TemplateSpans, MaxSpans)]

InitTemplate ==
  /\ call \in [fn : {"extractTemplateQueryInfo"}, template : Templates,
               kinds : SyntaxKinds]
  /\ ret = NoRet
  /\ InitIdle

ExtractTemplate ==
  /\ call.fn = "extractTemplateQueryInfo"
  /\ ~ret.done
  /\ ret' = [done |-> TRUE,
             query |-> extractTemplateQueryInfo(call.template, call.kinds)]
  /\ UNCHANGED <<call, cacheVars, buildVars>>

NextTemplate == ExtractTemplate

SpecTemplate == InitTemplate /\ [][NextTemplate]_vars

RECURSIVE C6_Intent(_, _, _)
C6_Intent(spans, i, acc) ==
  IF i > Len(spans) THEN acc
  ELSE C6_Intent(spans, i + 1,
                 acc \o Placeholder(i - 1) \o spans[i].literal)

C6_Params(spans) ==
  [i \in 1..Len(spans) |->
     <<"param" \o ToString(i - 1), JsonString(<<spans[i].expression>>)>>]

\* C6: for a template with n >= 1 interpolations the intent is exactly
\* h ++ "${0}" ++ t1 ++ ... ++ "${n-1}" ++ tn, with no delimiter kept and no
\* character of the literal text lost, and params is {param0: text(e0), ...}.
C6_Reconstruction ==
  ret.done /\ call.fn = "extractTemplateQueryInfo"
    /\ Len(call.template.spans) >= 1 =>
      /\ ret.query.intent = C6_Intent(call.template.spans, 1,
                                      call.template.head)
      /\ ret.query.params = Obj(C6_Params(call.template.spans))

\* The part of C6 the collector does satisfy: one interpolation whose tail
\* text does not start with "}".
C6_SingleInterpolation ==
  ret.done /\ call.fn = "extractTemplateQueryInfo"
    /\ Len(call.template.spans) = 1
    /\ ~StartsWith(call.template.spans[1].literal, <<"}">>) =>
      /\ ret.query.intent = C6_Intent(call.template.spans, 1,
                                      call.template.head)
      /\ ret.query.params = Obj(C6_Params(call.template.spans))

----------------------------------------------------------------------------
(* Cache store: utils/cache.ts *)

\* maxAge of isExpired, in milliseconds
MaxAge == 24 * 60 * 60 * 1000

\* A property whose value is undefined; JSON.stringify leaves it out.
UndefinedValue == <<Undefined>>

\* The members JSON.stringify writes for an object.
DefinedProps(props) == SelectSeq(props, LAMBDA m : m[2] # UndefinedValue)

\* JSON.stringify(params || {}) as generateCacheKey sees it
StringifyParams(params) == JsonObject(DefinedProps(ParamsOrEmpty(params)))

\* Mutant: the intent goes into the key as it is given.
generateCacheKeyUntrimmed(queryId, intent, params) ==
  Sha256(JsonObject(
    << <<"queryId", JsonString(<<queryId>>)>>,
       <<"intent", JsonString(intent)>>,
       <<"params", StringifyParams(params)>> >>))

\* generateCacheKey: sha256 over { queryId, intent.trim(), params || {} }
generateCacheKey(queryId, intent, params) ==
  Sha256(JsonObject(
    << <<"queryId", JsonString(<<queryId>>)>>,
       <<"intent", JsonString(Trim(intent))>>,
       <<"params", StringifyParams(params)>> >>))

\* The fields of a GeneratedQuery, in the order the generator writes them.
QueryFields ==
  <<"id", "intent", "sql", "parameters", "returnType", "hash", "sourceFile">>

\* JSON.stringify of a GeneratedQuery: a field that is undefined is left out.
StringifyQuery(query) ==
  LET present == SelectSeq(QueryFields, LAMBDA f : query[f] # Undefined)
  IN [i \in 1..Len(present) |-> <<present[i], query[present[i]]>>]

\* JSON.parse of that text: reading a field that is not there gives undefined.
ParseQuery(members) ==
  [f \in Range(QueryFields) |->
     IF \E i \in 1..Len(members) : members[i][1] = f
       THEN members[CHOOSE i \in 1..Len(members) : members[i][1] = f][2]
       ELSE Undefined]

NoFile == [exists |-> FALSE]

\* A file that is there but that readFileSync or JSON.parse throws on.
DamagedFile == [exists |-> TRUE, parses |-> FALSE]

\* A file whose text is the JSON object {}: it parses, and neither query
\* nor timestamp is in it.
EmptyObjectFile == [exists |-> TRUE, parses |-> TRUE]

\* The file-system calls that can be made to fail.
FaultKinds == {"mkdirSync", "writeFileSync", "readdirSync"}

\* JSON.stringify(cacheEntry): the content of one cache file
EntryFile(cacheKey, query, timestamp) ==
  [exists |-> TRUE, parses |-> TRUE, hash |-> cacheKey,
   query |-> StringifyQuery(query), timestamp |-> timestamp]

\* Mutant: the comparison is turned round, young entries count as expired.
isExpiredReversed(file, clock) == clock - file.timestamp < MaxAge

\* isExpired(cacheEntry); with no timestamp in the entry the difference
\* is NaN and the comparison false
isExpired(file, clock) ==
  "timestamp" \in DOMAIN file /\ clock - file.timestamp > MaxAge

Absent == [found |-> FALSE]

\* The value get returns, given the directory and the clock.
getValue(enabled, dir, clock, queryId, intent, params) ==
  IF ~enabled THEN Absent
  ELSE LET cacheFile == dir[generateCacheKey(queryId, intent, params)] IN
    IF ~cacheFile.exists THEN Absent
    ELSE IF ~cacheFile.parses THEN Absent
    ELSE IF isExpired(cacheFile, clock) THEN Absent
    ELSE IF "query" \notin DOMAIN cacheFile THEN Absent
    ELSE [found |-> TRUE, query |-> ParseQuery(cacheFile.query)]

\* The value has returns.
hasValue(enabled, dir, clock, queryId, intent, params) ==
  IF ~enabled THEN FALSE
  ELSE LET cacheFile == dir[generateCacheKey(queryId, intent, params)] IN
    IF ~cacheFile.exists THEN FALSE
    ELSE IF ~cacheFile.parses THEN FALSE
    ELSE ~isExpired(cacheFile, clock)

\* readdirSync(cacheDir) filtered to *.json
JsonFiles(dir) == {k \in DOMAIN dir : dir[k].exists}

\* The value getStats returns; cacheSize is "0 B" exactly when the files
\* hold no bytes, which is when there is no file.
statsValue(enabled, dirThere, dir, failing) ==
  IF ~enabled \/ ~dirThere THEN [totalEntries |-> 0, cacheSize |-> "0 B"]
  ELSE IF "readdirSync" \in failing
    THEN [totalEntries |-> 0, cacheSize |-> "0 B"]
  ELSE [totalEntries |-> Cardinality(JsonFiles(dir)),
        cacheSize |-> IF JsonFiles(dir) = {} THEN "0 B" ELSE "some bytes"]

CacheIds == {"q1"}
CacheIntents == {<<"a">>, <<"a", " ">>, <<"b">>}
CacheParams == {NoParams, Obj(<<>>)}
CacheKeys ==
  {generateCacheKey(i, t, p) : i \in CacheIds, t \in CacheIntents,
                               p \in CacheParams}
CacheQueries ==
  { [id |-> "q1", intent |-> <<"a">>, sql |-> "SELECT 1", parameters |-> <<>>,
     returnType |-> "User", hash |-> "h1", sourceFile |-> Undefined],
    [id |-> "q1", intent |-> <<"a">>, sql |-> "SELECT 2", parameters |-> <<>>,
     returnType |-> "User", hash |-> "h2", sourceFile |-> "f.ts"] }

NoSet == [isSet |-> FALSE]

\* new QueryCache(cacheDir, enabled)
\* mkdirSync is called outside any try block: when it fails the constructor
\* throws and no directory is made.
Construct(enabled) ==
  /\ LET throws == enabled /\ ~dirExists /\ "mkdirSync" \in faults IN
       /\ dirExists' = (dirExists \/ (enabled /\ ~throws))
       /\ lastOp' = [op |-> "new", enabled |-> enabled, at |-> now,
                     threw |-> throws]
  /\ UNCHANGED <<now, ticks, files, lastSet, faults, pureVars,
               buildVars>>

\* A call on an instance: an enabled instance was constructed, so its
\* directory exists.
Constructed(enabled) == enabled => dirExists

\* Mutant: a get that finds its entry expired unlinks the file.
GetEvicting(enabled, queryId, intent, params) ==
  /\ Constructed(enabled)
  /\ LET cacheKey == generateCacheKey(queryId, intent, params) IN
       files' = IF enabled /\ files[cacheKey].exists
                     /\ isExpired(files[cacheKey], now)
                  THEN [files EXCEPT ![cacheKey] = NoFile]
                  ELSE files
  /\ lastOp' = [op |-> "get", enabled |-> enabled, at |-> now,
                queryId |-> queryId, intent |-> intent, params |-> params,
                threw |-> FALSE,
                result |-> getValue(enabled, files, now, queryId, intent,
                                    params)]
  /\ UNCHANGED <<now, ticks, dirExists, lastSet, faults, pureVars,
               buildVars>>

\* get(queryId, intent, params)
Get(enabled, queryId, intent, params) ==
  /\ Constructed(enabled)
  /\ lastOp' = [op |-> "get", enabled |-> enabled, at |-> now,
                queryId |-> queryId, intent |-> intent, params |-> params,
                threw |-> FALSE,
                result |-> getValue(enabled, files, now, queryId, intent,
                                    params)]
  /\ UNCHANGED <<now, ticks, dirExists, files, lastSet, faults, pureVars,
               buildVars>>

\* Mutant: set writes its file without looking at the enabled flag.
SetAlways(enabled, queryId, intent, query, params) ==
  /\ Constructed(enabled)
  /\ LET cacheKey == generateCacheKey(queryId, intent, params) IN
       IF dirExists
         THEN /\ files' = [files EXCEPT
                             ![cacheKey] = EntryFile(cacheKey, query, now)]
              /\ lastSet' = [lastSet EXCEPT
                               ![cacheKey] = [isSet |-> TRUE, query |-> query,
                                              at |-> now]]
         ELSE UNCHANGED <<files, lastSet>>
  /\ lastOp' = [op |-> "set", enabled |-> enabled, at |-> now,
                queryId |-> queryId, intent |-> intent, params |-> params,
                threw |-> FALSE, query |-> query]
  /\ UNCHANGED <<now, ticks, dirExists, faults, pureVars,
               buildVars>>

\* set(queryId, intent, query, params)
Set(enabled, queryId, intent, query, params) ==
  /\ Constructed(enabled)
  /\ LET cacheKey == generateCacheKey(queryId, intent, params) IN
       IF enabled /\ "writeFileSync" \notin faults
         THEN /\ files' = [files EXCEPT
                             ![cacheKey] = EntryFile(cacheKey, query, now)]
              /\ lastSet' = [lastSet EXCEPT
                               ![cacheKey] = [isSet |-> TRUE, query |-> query,
                                              at |-> now]]
         ELSE UNCHANGED <<files, lastSet>>
  /\ lastOp' = [op |-> "set", enabled |-> enabled, at |-> now,
                queryId |-> queryId, intent |-> intent, params |-> params,
                threw |-> FALSE, query |-> query]
  /\ UNCHANGED <<now, ticks, dirExists, faults, pureVars,
               buildVars>>

\* has(queryId, intent, params)
Has(enabled, queryId, intent, params) ==
  /\ Constructed(enabled)
  /\ lastOp' = [op |-> "has", enabled |-> enabled, at |-> now,
                queryId |-> queryId, intent |-> intent, params |-> params,
                threw |-> FALSE,
                result |-> hasValue(enabled, files, now, queryId, intent,
                                    params)]
  /\ UNCHANGED <<now, ticks, dirExists, files, lastSet, faults, pureVars,
               buildVars>>

\* clear()
Clear(enabled) ==
  /\ Constructed(enabled)
  /\ IF enabled /\ dirExists /\ "readdirSync" \notin faults
       THEN /\ files' = [k \in DOMAIN files |-> NoFile]
            /\ lastSet' = [k \in DOMAIN lastSet |-> NoSet]
       ELSE UNCHANGED <<files, lastSet>>
  /\ lastOp' = [op |-> "clear", enabled |-> enabled, at |-> now,
                threw |-> FALSE]
  /\ UNCHANGED <<now, ticks, dirExists, faults, pureVars,
               buildVars>>

\* getStats()
GetStats(enabled) ==
  /\ Constructed(enabled)
  /\ lastOp' = [op |-> "getStats", enabled |-> enabled, at |-> now,
                threw |-> FALSE,
                result |-> statsValue(enabled, dirExists, files, faults)]
  /\ UNCHANGED <<now, ticks, dirExists, files, lastSet, faults, pureVars,
               buildVars>>

\* Date.now() moves on, by a millisecond or by maxAge.
Tick ==
  /\ ticks < MaxTicks
  /\ \E d \in {1, MaxAge} : now' = now + d
  /\ ticks' = ticks + 1
  /\ UNCHANGED <<dirExists, files, lastSet, lastOp, faults, pureVars,
               buildVars>>

InitCache ==
  /\ call = [fn |-> "none"] /\ ret = NoRet
  /\ now = 0 /\ ticks = 0 /\ dirExists = FALSE
  /\ files = [k \in CacheKeys |-> NoFile]
  /\ lastSet = [k \in CacheKeys |-> NoSet]
  /\ lastOp = [op |-> "none"] /\ faults = {}
  /\ source = <<>> /\ outputFile = [exists |-> FALSE, queries |-> <<>>]
  /\ queryFiles = <<>> /\ sqlFiles = <<>>
  /\ synced = "none" /\ lastBuild = [kind |-> "none"]

CacheConstruct == \E enabled \in BOOLEAN : Construct(enabled)
CacheGet ==
  \E enabled \in BOOLEAN, i \in CacheIds, t \in CacheIntents,
     p \in CacheParams : Get(enabled, i, t, p)
CacheSet ==
  \E enabled \in BOOLEAN, i \in CacheIds, t \in CacheIntents,
     q \in CacheQueries, p \in CacheParams : Set(enabled, i, t, q, p)
CacheHas ==
  \E enabled \in BOOLEAN, i \in CacheIds, t \in CacheIntents,
     p \in CacheParams : Has(enabled, i, t, p)
CacheClear == \E enabled \in BOOLEAN : Clear(enabled)
CacheGetStats == \E enabled \in BOOLEAN : GetStats(enabled)

NextCache ==
  \/ CacheConstruct
  \/ CacheGet
  \/ CacheSet
  \/ CacheHas
  \/ CacheClear
  \/ CacheGetStats
  \/ Tick

SpecCache == InitCache /\ [][NextCache]_vars

\* The environment: a file-system call starts or stops failing.
Break ==
  /\ \E failing \in SUBSET FaultKinds : faults' = failing
  /\ UNCHANGED <<now, ticks, dirExists, files, lastSet, lastOp, pureVars,
                 buildVars>>

\* The environment: a cache file becomes unreadable or is overwritten with
\* text that is not JSON.
Damage ==
  /\ \E k \in DOMAIN files :
       /\ files[k].exists
       /\ files' = [files EXCEPT ![k] = DamagedFile]
  /\ UNCHANGED <<now, ticks, dirExists, lastSet, lastOp, faults, pureVars,
                 buildVars>>

\* The cache store on a file system that fails.
NextCacheFaults ==
  \/ CacheConstruct
  \/ CacheGet
  \/ CacheSet
  \/ CacheHas
  \/ CacheClear
  \/ CacheGetStats
  \/ Break
  \/ Damage

SpecCacheFaults == InitCache /\ [][NextCacheFaults]_vars

----------------------------------------------------------------------------
(* Claims about the cache store *)

KeyOf(op) == generateCacheKey(op.queryId, op.intent, op.params)

\* C7: with caching enabled, after set(id, intent, q, params) a get with
\* the same id, the same params and an intent equal after trimming, made
\* before the entry is 24 hours old and with no clear or set on that key in
\* between, returns a query equal to q, and has returns true.
C7_RoundTrip ==
  (/\ lastOp.op \in {"get", "has"}
   /\ lastOp.enabled
   /\ lastSet[KeyOf(lastOp)].isSet
   /\ lastOp.at - lastSet[KeyOf(lastOp)].at < MaxAge)
  => IF lastOp.op = "get"
       THEN /\ lastOp.result.found
            /\ lastOp.result.query = lastSet[KeyOf(lastOp)].query
       ELSE lastOp.result = TRUE

\* A get that reads back, some time later and under another spelling of the
\* intent, a query whose sourceFile is undefined.
C7_Witness ==
  /\ lastOp.op = "get" /\ lastOp.enabled
  /\ lastSet[KeyOf(lastOp)].isSet
  /\ lastOp.at > lastSet[KeyOf(lastOp)].at
  /\ lastOp.at - lastSet[KeyOf(lastOp)].at < MaxAge
  /\ lastOp.intent = <<"a", " ">>
  /\ lastOp.result.found
  /\ lastOp.result.query.sourceFile = Undefined

\* A step of a read operation of an enabled instance.
ReadStep ==
  /\ lastOp'.op \in {"get", "has", "getStats"}
  /\ lastOp'.enabled
  /\ \/ /\ lastOp'.op = "get"
        /\ Get(TRUE, lastOp'.queryId, lastOp'.intent, lastOp'.params)
     \/ /\ lastOp'.op = "has"
        /\ Has(TRUE, lastOp'.queryId, lastOp'.intent, lastOp'.params)
     \/ /\ lastOp'.op = "getStats"
        /\ GetStats(TRUE)

ExpiredAt(k) == files[k].exists /\ isExpired(files[k], now)

\* C8: get and has on an entry older than the TTL return absent and false
\* and leave the stored file as it was, getStats still counts it, and no
\* read operation deletes or rewrites a file.
C8_LazyExpiration ==
  [][ReadStep =>
       /\ files' = files /\ dirExists' = dirExists
       /\ (lastOp'.op = "get" /\ ExpiredAt(KeyOf(lastOp')))
            => ~lastOp'.result.found
       /\ (lastOp'.op = "has" /\ ExpiredAt(KeyOf(lastOp')))
            => lastOp'.result = FALSE
       /\ lastOp'.op = "getStats"
            => lastOp'.result.totalEntries
                 = Cardinality({k \in CacheKeys : files[k].exists})]_vars

\* getStats counts a file that a get would report as absent.
C8_Witness ==
  /\ lastOp.op = "getStats" /\ lastOp.enabled
  /\ lastOp.result.totalEntries = 1
  /\ \E k \in CacheKeys : files[k].exists /\ isExpired(files[k], lastOp.at)
  /\ \A i \in CacheIds, t \in CacheIntents, p \in CacheParams :
       ~getValue(TRUE, files, lastOp.at, i, t, p).found

\* A step of an operation of a disabled instance.
DisabledStep ==
  /\ lastOp'.op # "none"
  /\ ~lastOp'.enabled
  /\ \/ /\ lastOp'.op = "new"
        /\ Construct(FALSE)
     \/ /\ lastOp'.op = "get"
        /\ Get(FALSE, lastOp'.queryId, lastOp'.intent, lastOp'.params)
     \/ /\ lastOp'.op = "has"
        /\ Has(FALSE, lastOp'.queryId, lastOp'.intent, lastOp'.params)
     \/ /\ lastOp'.op = "set"
        /\ Set(FALSE, lastOp'.queryId, lastOp'.intent, lastOp'.query,
               lastOp'.params)
     \/ /\ lastOp'.op = "clear"
        /\ Clear(FALSE)
     \/ /\ lastOp'.op = "getStats"
        /\ GetStats(FALSE)

\* C9: with enabled = false the constructor creates no directory, get
\* returns null, has returns false, set and clear change nothing on disk and
\* getStats reports zero entries and "0 B", whatever an enabled instance
\* wrote to the same directory before.
C9_DisabledNoOp ==
  [][DisabledStep =>
       /\ files' = files /\ dirExists' = dirExists
       /\ lastOp'.op = "get" => ~lastOp'.result.found
       /\ lastOp'.op = "has" => lastOp'.result = FALSE
       /\ lastOp'.op = "getStats"
            => lastOp'.result = [totalEntries |-> 0, cacheSize |-> "0 B"]]_vars

\* A disabled get on a key whose fresh file an enabled instance wrote.
C9_Witness ==
  /\ lastOp.op = "get" /\ ~lastOp.enabled
  /\ files[KeyOf(lastOp)].exists
  /\ ~isExpired(files[KeyOf(lastOp)], lastOp.at)
  /\ ~lastOp.result.found

\* A step of a method of an enabled instance (the constructor is not one).
MethodStep ==
  /\ lastOp'.op \in {"get", "set", "has", "clear", "getStats"}
  /\ lastOp'.enabled
  /\ \/ /\ lastOp'.op = "get"
        /\ Get(TRUE, lastOp'.queryId, lastOp'.intent, lastOp'.params)
     \/ /\ lastOp'.op = "set"
        /\ Set(TRUE, lastOp'.queryId, lastOp'.intent, lastOp'.query,
               lastOp'.params)
     \/ /\ lastOp'.op = "has"
        /\ Has(TRUE, lastOp'.queryId, lastOp'.intent, lastOp'.params)
     \/ /\ lastOp'.op = "clear"
        /\ Clear(TRUE)
     \/ /\ lastOp'.op = "getStats"
        /\ GetStats(TRUE)

\* C14: the cache store never throws: constructing the cache and calling
\* get, set, has, clear or getStats complete without raising, also when the
\* directory or an entry is unreadable, unwritable or corrupt.
C14_NeverThrows == lastOp.op # "none" => ~lastOp.threw

\* C14, the part the code keeps: a method of a constructed instance does not
\* throw; on a damaged entry get returns absent and has returns false; a
\* failing write or directory listing leaves the stored files as they were.
C14_MethodsDegrade ==
  [][MethodStep =>
       /\ ~lastOp'.threw
       /\ (lastOp'.op = "get" /\ files[KeyOf(lastOp')] = DamagedFile)
            => ~lastOp'.result.found
       /\ (lastOp'.op = "has" /\ files[KeyOf(lastOp')] = DamagedFile)
            => lastOp'.result = FALSE
       /\ (lastOp'.op = "set" /\ "writeFileSync" \in faults)
            => files' = files
       /\ (lastOp'.op = "clear" /\ "readdirSync" \in faults)
            => files' = files
       /\ lastOp'.op \in {"get", "has", "getStats"} => files' = files]_vars

\* A get on a damaged entry has returned absent.
C14_DegradeWitness ==
  /\ lastOp.op = "get" /\ lastOp.enabled
  /\ files[KeyOf(lastOp)] = DamagedFile
  /\ ~lastOp.result.found

----------------------------------------------------------------------------
(* Builds: generateQueries of plugin.ts and buildQueries of core/build.ts *)

SourceFiles == {"f.ts"}
BuildLines == {1, 2}
BuildIntents == {<<"a">>}

\* extractQueryInfo: the CollectedQuery of a db.llm<User>(intent) call
\* written at the given line of the given file
CollectedAt(file, line, intent) ==
  LET location == [file |-> file, line |-> line, column |-> 1] IN
  [id |-> generateQueryId(intent, NoParams, location),
   intent |-> intent, params |-> NoParams, returnType |-> "User",
   sourceFile |-> file, location |-> location]

BuildSites ==
  {CollectedAt(f, l, t) : f \in SourceFiles, l \in BuildLines,
                          t \in BuildIntents}

\* collectQueries walks a file from top to bottom: the calls come in the
\* order of their lines, one call per line.
Sources ==
  {src \in SeqsUpTo(BuildSites, Cardinality(BuildLines)) :
     \A i, j \in 1..Len(src) :
       i < j => src[i].location.line < src[j].location.line}

\* What cleanSQL leaves of a reply: trimmed, then the final semicolon and
\* the blanks after it removed, which can uncover a blank before it, as in
\* the reply "S ;".
GeneratedSql == {<<"S", " ">>}

\* generateHash(sql, parameters); the replies hold no placeholder, so
\* parameters is [].
generateHash(sql) ==
  Md5(JsonObject(<< <<"sql", JsonString(sql)>>,
                    <<"parameters", <<"[", "]">> >> >>))

\* The generatedQuery built for one query after a successful reply.
Generated(query, sql) ==
  [id |-> query.id, intent |-> query.intent, sql |-> sql,
   parameters |-> <<>>,
   returnType |-> IF query.returnType # Undefined THEN query.returnType
                  ELSE "any",
   hash |-> generateHash(sql), sourceFile |-> query.sourceFile,
   isValid |-> Undefined]

\* What happens to each query handed to the generator: a reply the
\* validator accepts ("ok"), a reply it rejects ("rejected"), three failed
\* attempts ("fail"), or not reached because of an interrupt ("skip").
\* The CLI build has no validator, so there a reply is "ok".
Outcomes(n, validates) ==
  {o \in [1..n -> IF validates THEN {"ok", "rejected", "fail", "skip"}
                   ELSE {"ok", "fail", "skip"}] :
     \A i, j \in 1..n : (i < j /\ o[i] = "skip") => o[j] = "skip"}

\* The indexes of the queries pushed to results.
Succeeded(outcome) ==
  SelectSeq([i \in 1..Len(outcome) |-> i],
            LAMBDA i : outcome[i] \in {"ok", "rejected"})

\* generateQueriesConversational: the results, and whether it throws.
generateQueriesConversational(queries, outcome, sql) ==
  LET done == Succeeded(outcome)
      results == [k \in 1..Len(done) |-> Generated(queries[done[k]], sql)]
      failed == {i \in 1..Len(outcome) : outcome[i] = "fail"}
  IN [results |-> results, throws |-> failed # {} /\ results = <<>>]

\* The validator pass of the plugin: isValid is set on every new query.
Validate(results, outcome) ==
  LET done == Succeeded(outcome) IN
  [k \in 1..Len(results) |->
     [results[k] EXCEPT !.isValid = IF outcome[done[k]] = "ok" THEN "true"
                                    ELSE "false"]]

\* extractQueriesFromFile: what the regular expression recovers of the
\* generatedQueries object; a later entry of the same id replaces an
\* earlier one.
extractQueriesFromFile(written) ==
  { [id |-> written[i].id, intent |-> <<>>, sql |-> Trim(written[i].sql),
     parameters |-> written[i].parameters, hash |-> written[i].hash,
     returnType |-> "any", sourceFile |-> Undefined, isValid |-> Undefined]
      : i \in {i \in 1..Len(written) :
                 \A j \in (i + 1)..Len(written) :
                   written[j].id # written[i].id} }

\* extractIntentMapping: intent -> id, a later line of the same intent
\* replaces an earlier one; a line with an empty intent is not matched.
extractIntentMapping(written) ==
  { <<written[i].intent, written[i].id>>
      : i \in {i \in 1..Len(written) :
                 /\ written[i].intent # <<>>
                 /\ \A j \in (i + 1)..Len(written) :
                      written[j].intent # written[i].intent} }

\* extractQueriesWithIntent: the intent is restored from the mapping.
extractQueriesWithIntent(written) ==
  LET mapping == extractIntentMapping(written) IN
  { IF \E m \in mapping : m[2] = e.id
      THEN [e EXCEPT !.intent = (CHOOSE m \in mapping : m[2] = e.id)[1]]
      ELSE e
      : e \in extractQueriesFromFile(written) }

\* loadExistingQueries(config.paths.output)
loadExistingQueries(file) ==
  IF ~file.exists THEN {} ELSE extractQueriesWithIntent(file.queries)

\* Mutant: every collected query is handed to the generator.
queriesToGenerateAll(buckets) ==
  buckets.validQueries \o buckets.invalidQueries \o buckets.changedQueries

\* const queriesToGenerate = [...invalidQueries, ...changedQueries]
queriesToGenerate(buckets) ==
  buckets.invalidQueries \o buckets.changedQueries

\* getExistingValidQueries
getExistingValidQueries(existingQueries, validQueries) ==
  LET kept == SelectSeq(validQueries,
                        LAMBDA q : HasEntry(existingQueries, q.id))
  IN [k \in 1..Len(kept) |-> Entry(existingQueries, kept[k].id)]

\* The queries of one group of queriesByFile.
GroupOf(queries, sourceFile) ==
  SelectSeq(queries, LAMBDA q : q.sourceFile = sourceFile)

\* writeDistributedQueryFiles: one file per source file; the group
\* "unknown" is skipped, and so is a group with no query to write.  The
\* plugin writes the queries whose isValid is not false, the CLI all.
writeDistributedQueryFiles(before, queries, validOnly) ==
  [f \in SourceFiles |->
     LET validFileQueries ==
           SelectSeq(GroupOf(queries, f),
                     LAMBDA q : ~validOnly \/ q.isValid # "false")
     IN IF validFileQueries = <<>> THEN before[f] ELSE validFileQueries]

\* writeSQLFiles
writeSQLFiles(before, queries) ==
  [f \in SourceFiles |->
     IF GroupOf(queries, f) = <<>> THEN before[f] ELSE GroupOf(queries, f)]

\* What the environment does to one build: the confirmation is refused
\* ("cancel"), generator.initialize throws ("initfail"), or generation runs
\* ("go") with an outcome for each of the n queries handed over.
BuildRuns(n, validates) ==
  {[gate |-> g, outcome |-> [i \in 1..n |-> "skip"], sql |-> <<>>]
     : g \in {"cancel", "initfail"}}
  \cup {[gate |-> "go", outcome |-> o, sql |-> q]
           : o \in Outcomes(n, validates), q \in GeneratedSql}

\* The body both builds share from the categorization on: what was handed
\* to the generator, what came back, and what is to be written.
runBuild(allQueries, existingQueries, buckets, run, validates) ==
  LET toGenerate == queriesToGenerate(buckets)
      base == [kind |-> "uptodate",
               existing |-> existingQueries, buckets |-> buckets,
               handed |-> <<>>, called |-> FALSE, newly |-> <<>>,
               all |-> <<>>, wrote |-> FALSE]
      gen == generateQueriesConversational(toGenerate, run.outcome, run.sql)
      newly == IF validates THEN Validate(gen.results, run.outcome)
               ELSE gen.results
  IN IF allQueries = <<>> THEN [base EXCEPT !.kind = "empty"]
     ELSE IF toGenerate = <<>> THEN base
     ELSE IF run.gate = "cancel" THEN [base EXCEPT !.kind = "cancelled"]
     ELSE IF run.gate = "initfail" \/ gen.throws
       THEN [base EXCEPT !.kind = "failed", !.handed = toGenerate,
                         !.called = TRUE]
     ELSE [base EXCEPT
             !.kind = "generated", !.handed = toGenerate, !.called = TRUE,
             !.newly = newly,
             !.all = getExistingValidQueries(existingQueries,
                                             buckets.validQueries) \o newly,
             !.wrote = TRUE]

\* generateQueries(config) of the plugin
generateQueries(src, file, run) ==
  LET existingQueries == IF src = <<>> THEN {} ELSE loadExistingQueries(file)
  IN runBuild(src, existingQueries,
              categorizeQueries(src, existingQueries), run, TRUE)

\* buildQueries(config) of the CLI: existingQueries is the empty object
buildQueries(src, run) ==
  runBuild(src, {}, buildCategorizeQueries(src, {}), run, FALSE)

\* History: this build generated every collected query, and every reply
\* was a good one.
EveryQueryGenerated(b, run) ==
  /\ b.wrote
  /\ b.buckets.validQueries = <<>>
  /\ \A i \in 1..Len(run.outcome) : run.outcome[i] = "ok"

NextSynced(b, run, driver) ==
  IF EveryQueryGenerated(b, run) THEN driver
  ELSE IF b.wrote THEN "none" ELSE synced

\* History: the build with its driver, its cache setting, whether the
\* build before it generated everything, and which of the queries handed
\* to the generator had a fresh cache entry when the build began.
History(b, driver, cacheEnabled) ==
  b @@ [driver |-> driver, cacheEnabled |-> cacheEnabled,
        wasSynced |-> synced,
        cached |-> {i \in 1..Len(b.handed) :
                      hasValue(TRUE, files, now, b.handed[i].id,
                               b.handed[i].intent, b.handed[i].params)}]

\* A build of the plugin (vite buildStart, or the build command of it).
PluginBuild ==
  \E cacheEnabled \in BOOLEAN,
     run \in BuildRuns(Len(queriesToGenerate(
               categorizeQueries(source,
                                 loadExistingQueries(outputFile)))), TRUE) :
    LET b == generateQueries(source, outputFile, run) IN
    /\ dirExists' = (dirExists \/ cacheEnabled)
    /\ outputFile' = IF b.wrote THEN [exists |-> TRUE, queries |-> b.all]
                     ELSE outputFile
    /\ queryFiles' = IF b.wrote
                       THEN writeDistributedQueryFiles(queryFiles, b.all, TRUE)
                       ELSE queryFiles
    /\ synced' = NextSynced(b, run, "plugin")
    /\ lastBuild' = History(b, "plugin", cacheEnabled)
    /\ UNCHANGED <<source, sqlFiles, now, ticks, files, lastSet, lastOp,
                   faults, pureVars>>

\* config.output of the CLI build: the default, both kinds of files
OutputConfigs ==
  { [generateQueryFiles |-> TRUE, generateSqlFiles |-> TRUE] }

\* A build of the CLI.
CliBuild ==
  \E cacheEnabled \in BOOLEAN, outputConfig \in OutputConfigs,
     run \in BuildRuns(Len(queriesToGenerate(
                             buildCategorizeQueries(source, {}))), FALSE) :
    LET b == buildQueries(source, run) IN
    /\ dirExists' = (dirExists \/ cacheEnabled)
    /\ queryFiles' = IF b.wrote /\ outputConfig.generateQueryFiles
                       THEN writeDistributedQueryFiles(queryFiles, b.all,
                                                       FALSE)
                       ELSE queryFiles
    /\ sqlFiles' = IF b.wrote /\ outputConfig.generateSqlFiles
                     THEN writeSQLFiles(sqlFiles, b.all)
                     ELSE sqlFiles
    /\ synced' = NextSynced(b, run, "cli")
    /\ lastBuild' = History(b, "cli", cacheEnabled)
    /\ UNCHANGED <<source, outputFile, now, ticks, files, lastSet, lastOp,
                   faults, pureVars>>

\* The developer edits the source files; the history starts again.
Edit ==
  /\ \E src \in Sources \ {source} : source' = src
  /\ synced' = "none"
  /\ lastBuild' = [kind |-> "none"]
  /\ UNCHANGED <<outputFile, queryFiles, sqlFiles, cacheVars, pureVars>>

BuildCacheKeys ==
  {generateCacheKey(q.id, q.intent, q.params) : q \in BuildSites}

\* The cache directory before the first build: not there, or left by an
\* earlier set(id, intent, query, params) for the call on line 1.
CachePrefills ==
  LET q == CollectedAt("f.ts", 1, <<"a">>)
      cacheKey == generateCacheKey(q.id, q.intent, q.params)
  IN { [k \in BuildCacheKeys |-> NoFile],
       [k \in BuildCacheKeys |->
          IF k = cacheKey THEN EntryFile(k, Generated(q, <<"S">>), 0)
          ELSE NoFile] }

InitBuild ==
  /\ call = [fn |-> "none"] /\ ret = NoRet
  /\ now = 0 /\ ticks = 0
  /\ files \in CachePrefills
  /\ dirExists = (\E k \in BuildCacheKeys : files[k].exists)
  /\ lastSet = <<>> /\ lastOp = [op |-> "none"] /\ faults = {}
  /\ source \in Sources
  /\ outputFile = [exists |-> FALSE, queries |-> <<>>]
  /\ queryFiles = [f \in SourceFiles |-> <<>>]
  /\ sqlFiles = [f \in SourceFiles |-> <<>>]
  /\ synced = "none" /\ lastBuild = [kind |-> "none"]

NextBuild == PluginBuild \/ CliBuild \/ Edit

SpecBuild == InitBuild /\ [][NextBuild]_vars

----------------------------------------------------------------------------
(* Claims about the builds *)

Ids(queries) == {queries[i].id : i \in 1..Len(queries)}

C4_SecondBuildIsClean ==
  (lastBuild.kind # "none" /\ lastBuild.wasSynced = lastBuild.driver) =>
    /\ lastBuild.buckets.validQueries = source
    /\ lastBuild.handed = <<>>
    /\ ~lastBuild.called

\* C4 for the plugin when no two calls share an intent: holds.
C4_PluginDistinctIntents ==
  (/\ lastBuild.kind # "none"
   /\ lastBuild.driver = "plugin"
   /\ lastBuild.wasSynced = "plugin"
   /\ \A i, j \in 1..Len(source) :
        source[i].intent = source[j].intent => i = j) =>
    /\ lastBuild.buckets.validQueries = source
    /\ ~lastBuild.called

\* C10: in a build with caching enabled, a query that has a fresh cache
\* entry under its (id, intent, params) is not handed to the generator, and
\* every newly generated query is in the cache afterwards.
C10_CacheShortCircuit ==
  (lastBuild.kind # "none" /\ lastBuild.cacheEnabled) =>
    /\ lastBuild.cached = {}
    /\ \A i \in 1..Len(lastBuild.handed) :
         lastBuild.handed[i].id \in Ids(lastBuild.newly) =>
           hasValue(TRUE, files, now, lastBuild.handed[i].id,
                    lastBuild.handed[i].intent, lastBuild.handed[i].params)

----------------------------------------------------------------------------
(* Runtime lookup of a tagged template: utils/hash.ts, runtime/template-tag.ts *)

\* generateRuntimeQueryId: md5 of JSON.stringify({ intent: intentPattern,
\* params: undefined, location: undefined })
generateRuntimeQueryId(intentPattern) ==
  Md5(JsonObject(
    Member("intent", TRUE, JsonString(intentPattern))
    \o Member("params", FALSE, <<>>)
    \o Member("location", FALSE, <<>>)))

\* hashIntent(intent)
hashIntent(intent) == generateRuntimeQueryId(intent)

\* strings.reduce of createLLMTag: the cooked strings with ${i} after each
\* string that has a value
RECURSIVE patternReduce(_, _, _, _)
patternReduce(strings, nValues, i, acc) ==
  IF i >= Len(strings) THEN acc
  ELSE patternReduce(strings, nValues, i + 1,
         IF i < nValues THEN acc \o strings[i + 1] \o Placeholder(i)
         ELSE acc \o strings[i + 1])

\* The strings array the tag function receives for a template.
TemplateStrings(template) ==
  <<template.head>>
  \o [i \in 1..Len(template.spans) |-> template.spans[i].literal]

\* The query the build registers for the template: extractTemplateQueryInfo
\* with its id.
collectTemplate(template, kinds, location) ==
  LET info == extractTemplateQueryInfo(template, kinds) IN
  [id |-> generateQueryId(info.intent, info.params, location),
   intent |-> info.intent, params |-> info.params, location |-> location]

\* The llm tag at runtime: the id it looks up, and whether generatedQueries
\* has it.  intentToId is a set of <<intent, id>>, generatedQueries the set
\* of registered ids.
llmTag(template, generatedQueries, intentToId) ==
  LET strings == TemplateStrings(template)
      intentPattern == patternReduce(strings, Len(template.spans), 0, <<>>)
      queryId == IF \E m \in intentToId : m[1] = intentPattern
                   THEN (CHOOSE m \in intentToId : m[1] = intentPattern)[2]
                   ELSE hashIntent(intentPattern)
  IN [intentPattern |-> intentPattern, queryId |-> queryId,
      found |-> queryId \in generatedQueries]

InitRuntime ==
  /\ call \in [fn : {"llm"}, template : Templates, kinds : SyntaxKinds,
               location : IdLocations, withMapping : BOOLEAN]
  /\ ret = [done |-> FALSE, invoked |-> FALSE]
  /\ InitIdle

\* The build collects the template and registers its artifact.
CollectTemplate ==
  /\ ~ret.done
  /\ ret' = [done |-> TRUE, invoked |-> FALSE,
             query |-> collectTemplate(call.template, call.kinds,
                                       call.location)]
  /\ UNCHANGED <<call, cacheVars, buildVars>>

\* The running process evaluates the tagged template.
InvokeTag ==
  /\ ret.done /\ ~ret.invoked
  /\ ret' = [ret EXCEPT
               !.invoked = TRUE,
               !.query = @ @@
                 [lookup |-> llmTag(call.template, {ret.query.id},
                                    IF call.withMapping /\ ret.query.intent # <<>>
                                      THEN {<<ret.query.intent, ret.query.id>>}
                                      ELSE {})]]
  /\ UNCHANGED <<call, cacheVars, buildVars>>

NextRuntime == CollectTemplate \/ InvokeTag

SpecRuntime == InitRuntime /\ [][NextRuntime]_vars

\* C11: the id computed at runtime from the intent pattern alone is the id
\* under which the build registered the query.
C11_RuntimeIdResolves ==
  ret.done => generateRuntimeQueryId(ret.query.intent) = ret.query.id

----------------------------------------------------------------------------
(* More claims about the cache store *)

\* C12: an entry written at t is returned by get, and reported by has,
\* exactly while now - t < 24 h; from now - t = 24 h on it is absent.
C12_TtlBoundary ==
  (/\ lastOp.op \in {"get", "has"}
   /\ lastOp.enabled
   /\ files[KeyOf(lastOp)].exists)
  => LET age == lastOp.at - files[KeyOf(lastOp)].timestamp
         fresh == age < MaxAge
     IN IF lastOp.op = "get" THEN lastOp.result.found = fresh
        ELSE lastOp.result = fresh

----------------------------------------------------------------------------
(* The cache key as a function of its arguments: utils/cache.ts *)

KeyIds == {"q1", "q2"}
KeyIntents == {<<"a">>, <<" ", "a">>, <<"a", " ">>, <<"b">>}
KeyParams ==
  { NoParams, Obj(<<>>),
    Obj(<< <<"k", <<"1">> >> >>), Obj(<< <<"k", <<"2">> >> >>),
    Obj(<< <<"j", <<"1">> >> >>), Obj(<< <<"k", UndefinedValue>> >>),
    Obj(<< <<"k", <<"1">> >>, <<"j", <<"1">> >> >>),
    Obj(<< <<"j", <<"1">> >>, <<"k", <<"1">> >> >>) }
KeyArgs == [queryId : KeyIds, intent : KeyIntents, params : KeyParams]

InitKey ==
  /\ call \in [fn : {"generateCacheKey"}, a : KeyArgs, b : KeyArgs]
  /\ ret = NoRet
  /\ InitIdle

\* Two calls of get, has or set compute their keys.
GenerateCacheKeys ==
  /\ call.fn = "generateCacheKey"
  /\ ~ret.done
  /\ ret' = [done |-> TRUE,
             a |-> generateCacheKey(call.a.queryId, call.a.intent,
                                    call.a.params),
             b |-> generateCacheKey(call.b.queryId, call.b.intent,
                                    call.b.params)]
  /\ UNCHANGED <<call, cacheVars, buildVars>>

NextKey == GenerateCacheKeys

SpecKey == InitKey /\ [][NextKey]_vars

\* params ?? {} as a map: its keys with their values
ParamsMap(params) == Range(ParamsOrEmpty(params))

----------------------------------------------------------------------------
(* The schema analyzer: column definitions *)

MaxMods == 2         \* modifier calls chained on one column's root type call

Null == "null"

\* ts-morph nodes, as far as the analyzer looks at them
Identifier(text) == [kind |-> "Identifier", text |-> text]
StringLiteral(value) == [kind |-> "StringLiteral", value |-> value]
ObjectLiteral(properties) ==
  [kind |-> "ObjectLiteralExpression", properties |-> properties]
PropertyAccess(expression, name) ==
  [kind |-> "PropertyAccessExpression", expression |-> expression,
   name |-> name]
CallExpression(expression, arguments) ==
  [kind |-> "CallExpression", expression |-> expression,
   arguments |-> arguments]
PropertyAssignment(name, initializer) ==
  [kind |-> "PropertyAssignment", name |-> name, initializer |-> initializer]
ShorthandProperty(name) ==
  [kind |-> "ShorthandPropertyAssignment", name |-> name]

isCallExpression(node) == node.kind = "CallExpression"
isIdentifier(node) == node.kind = "Identifier"
isPropertyAccessExpression(node) == node.kind = "PropertyAccessExpression"
isStringLiteral(node) == node.kind = "StringLiteral"

NoRootCall == [found |-> FALSE]

\* findRootTypeCall(callExpr): the loop walks to the left of every property
\* access; an identifier reached that way is returned with no arguments.
RECURSIVE findRootTypeCall(_)
findRootTypeCall(current) ==
  IF ~isCallExpression(current) THEN NoRootCall
  ELSE LET expression == current.expression IN
    IF isIdentifier(expression)
      THEN [found |-> TRUE, typeName |-> expression.text,
            args |-> current.arguments]
    ELSE IF isPropertyAccessExpression(expression)
      THEN LET left == expression.expression IN
        IF isCallExpression(left) THEN findRootTypeCall(left)
        ELSE IF isIdentifier(left)
          THEN [found |-> TRUE, typeName |-> left.text, args |-> <<>>]
        ELSE NoRootCall
    ELSE NoRootCall

\* Mutant: only the outermost call of the chain is collected.
getOutermostCall(current) ==
  IF ~isCallExpression(current) THEN <<>>
  ELSE IF isPropertyAccessExpression(current.expression)
    THEN <<[methodName |-> current.expression.name,
            args |-> current.arguments]>>
  ELSE <<>>

\* getAllChainedCalls(callExpr): every call made through a property access,
\* leftmost first
RECURSIVE getAllChainedCalls(_)
getAllChainedCalls(current) ==
  IF ~isCallExpression(current) THEN <<>>
  ELSE IF isPropertyAccessExpression(current.expression)
    THEN Append(getAllChainedCalls(current.expression.expression),
                [methodName |-> current.expression.name,
                 args |-> current.arguments])
  ELSE <<>>

\* mapDrizzleType(drizzleType): 'int' is the one alias, every other name
\* maps to itself
mapDrizzleType(drizzleType) ==
  IF drizzleType = "int" THEN "integer" ELSE drizzleType

\* extractLiteralValue(node)
extractLiteralValue(node) ==
  IF isStringLiteral(node) THEN node.value ELSE "text of the node"

DefaultMethods == {"default", "defaultRandom", "defaultNow"}

\* The loop of parseColumnDefinition over the chained calls
RECURSIVE applyChainedCalls(_, _, _)
applyChainedCalls(chainedCalls, i, acc) ==
  IF i > Len(chainedCalls) THEN acc
  ELSE LET chained == chainedCalls[i] IN
    applyChainedCalls(chainedCalls, i + 1,
      IF chained.methodName = "notNull"
        THEN [acc EXCEPT !.nullable = FALSE]
      ELSE IF chained.methodName \in DefaultMethods
        THEN [acc EXCEPT !.defaultValue =
                IF Len(chained.args) > 0
                  THEN extractLiteralValue(chained.args[1])
                  ELSE chained.methodName \o "()"]
      ELSE IF chained.methodName = "unique"
        THEN [acc EXCEPT !.constraints = Append(@, "UNIQUE")]
      ELSE IF chained.methodName = "primaryKey"
        THEN [acc EXCEPT !.constraints = Append(@, "PRIMARY KEY")]
      ELSE acc)

\* parseColumnDefinition(name, callExpr); the inputs carry no enum option
\* and no arrow function, so enumValues and references stay undefined.
parseColumnDefinition(name, callExpr) ==
  LET rootCall == findRootTypeCall(callExpr)
      looped == applyChainedCalls(getAllChainedCalls(callExpr), 1,
                  [nullable |-> TRUE, defaultValue |-> Undefined,
                   constraints |-> <<>>])
  IN [name |-> name,
      type |-> IF rootCall.found THEN mapDrizzleType(rootCall.typeName)
               ELSE "unknown",
      nullable |-> looped.nullable,
      defaultValue |-> looped.defaultValue,
      enumValues |-> Undefined,
      constraints |-> [isDefined |-> Len(looped.constraints) > 0,
                       items |-> looped.constraints],
      references |-> Undefined]

\* extractDbColumnName(callExpr)
extractDbColumnName(callExpr) ==
  LET rootCall == findRootTypeCall(callExpr) IN
    IF ~rootCall.found \/ Len(rootCall.args) = 0 THEN Null
    ELSE IF isStringLiteral(rootCall.args[1]) THEN rootCall.args[1].value
    ELSE Null

\* dbColumnName || propertyName
OrElse(value, fallback) ==
  IF value = Null \/ value = "" THEN fallback ELSE value

\* extractColumns(schemaNode)
RECURSIVE extractColumnsFrom(_, _)
extractColumnsFrom(properties, i) ==
  IF i > Len(properties) THEN <<>>
  ELSE LET prop == properties[i]
           rest == extractColumnsFrom(properties, i + 1)
       IN
    IF prop.kind = "PropertyAssignment" /\ isCallExpression(prop.initializer)
      THEN <<[column |-> parseColumnDefinition(prop.name, prop.initializer),
              dbName |-> OrElse(extractDbColumnName(prop.initializer),
                                prop.name)]>> \o rest
      ELSE rest

extractColumns(schemaNode) == extractColumnsFrom(schemaNode.properties, 1)

\* A column definition as it is written: the root type call and the
\* modifier calls chained on it
RECURSIVE Chain(_, _)
Chain(root, modifiers) ==
  IF modifiers = <<>> THEN root
  ELSE LET last == modifiers[Len(modifiers)] IN
    CallExpression(
      PropertyAccess(Chain(root, SubSeq(modifiers, 1, Len(modifiers) - 1)),
                     last.methodName),
      last.args)

ModifierCalls ==
  { [methodName |-> "notNull", args |-> <<>>],
    [methodName |-> "primaryKey", args |-> <<>>],
    [methodName |-> "unique", args |-> <<>>],
    [methodName |-> "default", args |-> <<StringLiteral("d")>>],
    [methodName |-> "references", args |-> <<>>] }
ModifierChains == SeqsUpTo(ModifierCalls, MaxMods)
TypeNames == {"text", "int"}
RootArguments ==
  { <<>>, <<StringLiteral("created_at")>>,
    <<StringLiteral("created_at"), ObjectLiteral(<<>>)>>,
    <<ObjectLiteral(<<>>)>>, <<StringLiteral("")>> }
RootForms == {"bare", "namespace"}

\* text(...) or t.text(...)
RootCall(form, typeName, args) ==
  IF form = "bare" THEN CallExpression(Identifier(typeName), args)
  ELSE CallExpression(PropertyAccess(Identifier("t"), typeName), args)

InitColumn ==
  /\ InitIdle
  /\ call \in [fn : {"extractColumns"}, form : RootForms,
               typeName : TypeNames, args : RootArguments,
               modifiers : ModifierChains]
  /\ ret = NoRet

\* createdAt: <root call><modifiers>
ColumnProperty(c) ==
  PropertyAssignment("createdAt",
                     Chain(RootCall(c.form, c.typeName, c.args), c.modifiers))

ExtractColumns ==
  /\ ~ret.done
  /\ ret' = [done |-> TRUE,
             columns |-> extractColumns(ObjectLiteral(<<ColumnProperty(call)>>))]
  /\ UNCHANGED <<call, cacheVars, buildVars>>

NextColumn == ExtractColumns

SpecColumn == InitColumn /\ [][NextColumn]_vars

----------------------------------------------------------------------------
(* Claims about column definitions *)

\* The first argument of the root type call as it is written, when it is a
\* string literal
WrittenName(c) ==
  IF Len(c.args) > 0 /\ isStringLiteral(c.args[1]) THEN c.args[1].value
  ELSE Null

\* C15: dbName is the first string-literal argument of the root type call
\* when it has one and the property name otherwise, for text(...) and for
\* t.text(...), under any number of chained modifiers.
C15_DbName ==
  ret.done =>
    /\ Len(ret.columns) = 1
    /\ ret.columns[1].dbName =
         IF WrittenName(call) # Null THEN WrittenName(call) ELSE "createdAt"

\* C15, the part the code keeps: a root type call made through a bare
\* identifier, with a first argument that is not the empty string.
C15_BareIdentifier ==
  (ret.done /\ call.form = "bare" /\ WrittenName(call) # "") =>
    ret.columns[1].dbName =
      IF WrittenName(call) # Null THEN WrittenName(call) ELSE "createdAt"

\* text('created_at') under two modifiers keeps its physical name.
C15_BareWitness ==
  /\ ret.done /\ call.form = "bare" /\ Len(call.modifiers) = MaxMods
  /\ WrittenName(call) = "created_at"
  /\ ret.columns[1].dbName = "created_at"

HasNotNull(c) ==
  \E i \in 1..Len(c.modifiers) : c.modifiers[i].methodName = "notNull"

\* C16: nullable is false exactly when the modifier chain contains a
\* notNull call, at any position; no other modifier changes it.
C16_Nullable ==
  ret.done =>
    /\ Len(ret.columns) = 1
    /\ ret.columns[1].column.nullable = ~HasNotNull(call)

\* notNull is not the outermost call of the chain and is still seen; a
\* primary key without notNull stays nullable.
C16_Witness ==
  /\ ret.done /\ Len(call.modifiers) = 2
  /\ call.modifiers[1].methodName = "notNull"
  /\ call.modifiers[2].methodName = "primaryKey"
  /\ ~ret.columns[1].column.nullable

----------------------------------------------------------------------------
(* The schema analyzer: tables *)

MaxDecls == 2        \* variable declarations in one schema file

VariableDeclaration(name, initializer) ==
  [kind |-> "VariableDeclaration", name |-> name, initializer |-> initializer]

\* extractPrimaryKey(node): looks for a call expression among the children
\* of the declaration's parent; the children of a declaration list are
\* declarations and commas, so nothing is found.
extractPrimaryKey(node) == Undefined

\* extractTableInfo returns null
NoTableInfo == [isNull |-> TRUE]

\* extractTableInfo(node)
extractTableInfo(node) ==
  LET initializer == node.initializer IN
  IF ~isCallExpression(initializer) THEN NoTableInfo
  ELSE LET expression == initializer.expression
           functionName ==
             IF isIdentifier(expression) THEN expression.text
             ELSE IF isPropertyAccessExpression(expression)
               THEN expression.name
             ELSE Null
           args == initializer.arguments
       IN
    IF functionName \notin {"pgTable", "table"} THEN NoTableInfo
    ELSE IF Len(args) < 2 THEN NoTableInfo
    ELSE IF ~isStringLiteral(args[1]) THEN NoTableInfo
    ELSE IF args[2].kind # "ObjectLiteralExpression" THEN NoTableInfo
    ELSE [name |-> args[1].value,
          columns |-> extractColumns(args[2]),
          primaryKey |-> extractPrimaryKey(node)]

\* The forEachDescendant loop of analyzeSchema
RECURSIVE collectTables(_, _)
collectTables(declarations, i) ==
  IF i > Len(declarations) THEN <<>>
  ELSE LET tableInfo == extractTableInfo(declarations[i]) IN
    IF tableInfo # NoTableInfo
      THEN <<tableInfo>> \o collectTables(declarations, i + 1)
      ELSE collectTables(declarations, i + 1)

\* analyzeSchema(schemaPath): addSourceFileAtPath is called outside any try
\* block and throws when the file cannot be read.
analyzeSchema(sourceFile) ==
  IF ~sourceFile.readable THEN [threw |-> TRUE]
  ELSE [threw |-> FALSE,
        schema |-> [tables |-> collectTables(sourceFile.declarations, 1),
                    relations |-> <<>>]]

IdColumn == PropertyAssignment("id", RootCall("bare", "int", <<>>))
NameColumn ==
  PropertyAssignment("name",
    Chain(RootCall("bare", "text", <<StringLiteral("name")>>),
          <<[methodName |-> "notNull", args |-> <<>>]>>))

ColumnObjects ==
  { ObjectLiteral(<<>>),
    ObjectLiteral(<<IdColumn>>),
    ObjectLiteral(<<IdColumn, NameColumn>>),
    ObjectLiteral(<<PropertyAssignment("version", StringLiteral("1"))>>),
    ObjectLiteral(<<ShorthandProperty("id")>>) }

TableArguments ==
  {<<StringLiteral(n), o>> : n \in {"", "users"}, o \in ColumnObjects}
    \cup { <<StringLiteral("users")>>,
           <<Identifier("tableName"), ObjectLiteral(<<IdColumn>>)>>,
           <<StringLiteral("users"), Identifier("columns")>> }

TableCallees ==
  {Identifier("pgTable"), PropertyAccess(Identifier("schema"), "table")}

Declarations ==
  {VariableDeclaration("users", CallExpression(f, a)) :
     f \in TableCallees, a \in TableArguments}
    \cup { VariableDeclaration("users",
             CallExpression(Identifier("sqliteTable"),
                            <<StringLiteral("users"),
                              ObjectLiteral(<<IdColumn>>)>>)),
           VariableDeclaration("version", StringLiteral("1")) }

InitSchema ==
  /\ InitIdle
  /\ call \in [fn : {"analyzeSchema"}, readable : BOOLEAN,
               declarations : SeqsUpTo(Declarations, MaxDecls)]
  /\ ret = NoRet

AnalyzeSchema ==
  /\ ~ret.done
  /\ ret' = [done |-> TRUE, result |-> analyzeSchema(call)]
  /\ UNCHANGED <<call, cacheVars, buildVars>>

NextSchema == AnalyzeSchema

SpecSchema == InitSchema /\ [][NextSchema]_vars

\* C17: every TableInfo returned by analyzeSchema has a non-empty name and
\* at least one column.
C17_ValidTables ==
  (ret.done /\ ~ret.result.threw) =>
    \A i \in 1..Len(ret.result.schema.tables) :
      /\ ret.result.schema.tables[i].name # ""
      /\ Len(ret.result.schema.tables[i].columns) >= 1

\* C17, the part the code keeps: a returned table comes from a pgTable or
\* table call with a string-literal name and an object-literal second
\* argument, in declaration order.
C17_RecognizedCalls ==
  (ret.done /\ ~ret.result.threw) =>
    LET tables == ret.result.schema.tables IN
      /\ Len(tables) <= Len(call.declarations)
      /\ \A i \in 1..Len(tables) :
           \E j \in 1..Len(call.declarations) :
             LET init == call.declarations[j].initializer IN
               /\ isCallExpression(init)
               /\ Len(init.arguments) = 2
               /\ isStringLiteral(init.arguments[1])
               /\ init.arguments[1].value = tables[i].name
               /\ init.arguments[2].kind = "ObjectLiteralExpression"

----------------------------------------------------------------------------
(* Return-type inference: ast-parser.ts *)

MaxDepth == 3        \* ancestors of a query site that are looked at

\* The text of a type node, as tokens
TypeRow == <<"Row">>
TypeUsers == <<"User", "[]">>
TypeItem == <<"Item">>
PromiseOf(type) == <<"Promise", "<">> \o type \o <<">">>

\* The ancestors of a query site, the parent first
AwaitExpression == [kind |-> "AwaitExpression"]
VariableDeclarationNode(typeNode) ==
  [kind |-> "VariableDeclaration", typeNode |-> typeNode]
FunctionNode(kind, returnTypeNode) ==
  [kind |-> kind, returnTypeNode |-> returnTypeNode]
WrappingCall(typeArguments) ==
  [kind |-> "CallExpression", typeArguments |-> typeArguments]

FunctionKinds ==
  {"FunctionDeclaration", "ArrowFunction", "MethodDeclaration",
   "FunctionExpression"}

\* returnTypeText.match(/^Promise<(.+)>$/)
promiseMatch(returnTypeText) ==
  /\ Len(returnTypeText) >= 4
  /\ returnTypeText[1] = "Promise" /\ returnTypeText[2] = "<"
  /\ returnTypeText[Len(returnTypeText)] = ">"

\* promiseMatch ? promiseMatch[1] : returnTypeText
unwrapPromise(returnTypeText) ==
  IF promiseMatch(returnTypeText)
    THEN SubSeq(returnTypeText, 3, Len(returnTypeText) - 1)
    ELSE returnTypeText

\* getFunctionReturnType(node): the walk stops at the first function, with
\* or without a return type
RECURSIVE functionReturnTypeFrom(_, _)
functionReturnTypeFrom(ancestors, i) ==
  IF i > Len(ancestors) THEN UndefinedValue
  ELSE IF ancestors[i].kind \in FunctionKinds
    THEN IF ancestors[i].returnTypeNode # UndefinedValue
           THEN unwrapPromise(ancestors[i].returnTypeNode)
           ELSE UndefinedValue
  ELSE functionReturnTypeFrom(ancestors, i + 1)

getFunctionReturnType(node) == functionReturnTypeFrom(node.ancestors, 1)

\* inferReturnType(node): the variable declaration is looked for in the
\* parent only
inferReturnType(node) ==
  IF Len(node.typeArguments) > 0 THEN node.typeArguments[1]
  ELSE IF /\ Len(node.ancestors) > 0
          /\ node.ancestors[1].kind = "VariableDeclaration"
          /\ node.ancestors[1].typeNode # UndefinedValue
    THEN node.ancestors[1].typeNode
  ELSE getFunctionReturnType(node)

\* node.getFirstAncestorByKind(SyntaxKind.VariableDeclaration)
RECURSIVE firstAncestorByKind(_, _, _)
firstAncestorByKind(ancestors, kind, i) ==
  IF i > Len(ancestors) THEN 0
  ELSE IF ancestors[i].kind = kind THEN i
  ELSE firstAncestorByKind(ancestors, kind, i + 1)

\* inferTemplateReturnType(node): the type arguments are those of a call
\* that is the parent of the tagged template, not the template's own
inferTemplateReturnType(node) ==
  IF /\ Len(node.ancestors) > 0
     /\ node.ancestors[1].kind = "CallExpression"
     /\ Len(node.ancestors[1].typeArguments) > 0
    THEN node.ancestors[1].typeArguments[1]
  ELSE LET v == firstAncestorByKind(node.ancestors, "VariableDeclaration", 1)
       IN IF v # 0 /\ node.ancestors[v].typeNode # UndefinedValue
            THEN node.ancestors[v].typeNode
            ELSE UndefinedValue

\* returnType of the collected query, for either form
returnTypeOf(node) ==
  IF node.form = "call" THEN inferReturnType(node)
  ELSE inferTemplateReturnType(node)

AncestorNodes ==
  { AwaitExpression,
    VariableDeclarationNode(UndefinedValue),
    VariableDeclarationNode(TypeUsers),
    FunctionNode("ArrowFunction", UndefinedValue),
    FunctionNode("ArrowFunction", TypeItem),
    FunctionNode("MethodDeclaration", PromiseOf(TypeItem)),
    FunctionNode("FunctionDeclaration", PromiseOf(PromiseOf(TypeItem))),
    WrappingCall(<<>>),
    WrappingCall(<<TypeRow>>) }

QuerySites ==
  [form : {"call", "template"},
   typeArguments : {<<>>, <<TypeRow>>},
   ancestors : SeqsUpTo(AncestorNodes, MaxDepth)]

InitReturnType ==
  /\ InitIdle
  /\ call \in QuerySites
  /\ ret = NoRet

InferReturnType ==
  /\ ~ret.done
  /\ ret' = [done |-> TRUE, returnType |-> returnTypeOf(call)]
  /\ UNCHANGED <<call, cacheVars, buildVars>>

NextReturnType == InferReturnType

SpecReturnType == InitReturnType /\ [][NextReturnType]_vars

----------------------------------------------------------------------------
(* Claims about return-type inference *)

\* The nearest enclosing function of a site, 0 when there is none
RECURSIVE NearestFunction(_, _)
NearestFunction(ancestors, i) ==
  IF i > Len(ancestors) THEN 0
  ELSE IF ancestors[i].kind \in FunctionKinds THEN i
  ELSE NearestFunction(ancestors, i + 1)

\* Rule 1: the generic type argument written on the call or on the template
Rule1(site) ==
  IF Len(site.typeArguments) > 0 THEN site.typeArguments[1]
  ELSE UndefinedValue

\* Rule 2: the annotation of the nearest enclosing variable declaration
Rule2(site) ==
  LET v == firstAncestorByKind(site.ancestors, "VariableDeclaration", 1) IN
    IF v # 0 THEN site.ancestors[v].typeNode ELSE UndefinedValue

\* Rule 3: the call form only, the return type of the nearest enclosing
\* function with one Promise unwrapped
Rule3(site) ==
  LET f == NearestFunction(site.ancestors, 1) IN
    IF site.form = "call" /\ f # 0
         /\ site.ancestors[f].returnTypeNode # UndefinedValue
      THEN LET text == site.ancestors[f].returnTypeNode IN
             IF promiseMatch(text) THEN SubSeq(text, 3, Len(text) - 1)
             ELSE text
      ELSE UndefinedValue

FallbackChain(site) ==
  IF Rule1(site) # UndefinedValue THEN Rule1(site)
  ELSE IF Rule2(site) # UndefinedValue THEN Rule2(site)
  ELSE Rule3(site)

\* C18: return-type inference takes the first rule that yields a type:
\* the generic type argument of the call or of the tagged template, then
\* the annotation of an enclosing variable declaration (also through an
\* await or another wrapper), then, for the call form, the return type of
\* the nearest enclosing function with one Promise unwrapped; undefined
\* when no rule yields a type.
C18_FallbackChain == ret.done => ret.returnType = FallbackChain(call)

\* C18, the part the code keeps: a call-form site whose parent is the
\* variable declaration, or that has no enclosing variable declaration,
\* follows the chain.
C18_CallFormDirect ==
  (/\ ret.done /\ call.form = "call"
   /\ firstAncestorByKind(call.ancestors, "VariableDeclaration", 1) \in {0, 1})
    => ret.returnType = FallbackChain(call)

\* Rule 3 has applied and has unwrapped one Promise of two.
C18_DirectWitness ==
  /\ ret.done /\ call.form = "call" /\ call.typeArguments = <<>>
  /\ firstAncestorByKind(call.ancestors, "VariableDeclaration", 1) = 1
  /\ call.ancestors[1].typeNode = UndefinedValue
  /\ ret.returnType = PromiseOf(TypeItem)

----------------------------------------------------------------------------
(* The query collector: ast-parser.ts *)

FilePaths == {"a.ts", "b.ts"}

\* The longest list of patterns in config.paths.queries
MaxPatterns == 2

\* More ts-morph nodes; start is node.getStart(), kept for the query sites
Block(statements) == [kind |-> "Block", statements |-> statements]
ArrowFunction(body) == [kind |-> "ArrowFunction", body |-> body]
TemplateLiteral(text) ==
  [kind |-> "NoSubstitutionTemplateLiteral", head |-> text, spans |-> <<>>]
MethodCall(object, name, arguments, start) ==
  [kind |-> "CallExpression",
   expression |-> PropertyAccess(Identifier(object), name),
   arguments |-> arguments, start |-> start]
TaggedTemplate(tag, text, start) ==
  [kind |-> "TaggedTemplateExpression", tag |-> Identifier(tag),
   template |-> TemplateLiteral(text), start |-> start]

\* The children of a node, in source order
getChildren(node) ==
  CASE node.kind = "CallExpression" -> <<node.expression>> \o node.arguments
    [] node.kind = "PropertyAccessExpression" -> <<node.expression>>
    [] node.kind = "Block" -> node.statements
    [] node.kind = "ArrowFunction" -> <<node.body>>
    [] node.kind = "TaggedTemplateExpression" -> <<node.tag, node.template>>
    [] OTHER -> <<>>

\* sourceFile.forEachDescendant: the descendants in the order the callback
\* sees them, a node before its children
RECURSIVE forEachDescendant(_)
RECURSIVE descendantsOfAll(_, _)
descendantsOfAll(nodes, i) ==
  IF i > Len(nodes) THEN <<>>
  ELSE <<nodes[i]>> \o forEachDescendant(nodes[i])
         \o descendantsOfAll(nodes, i + 1)

forEachDescendant(node) == descendantsOfAll(getChildren(node), 1)

\* isDBLLMCall(node)
isDBLLMCall(node) ==
  /\ isPropertyAccessExpression(node.expression)
  /\ node.expression.name = "llm"
  /\ isIdentifier(node.expression.expression)
  /\ node.expression.expression.text \in {"db", "llmDB"}

\* isLLMTemplateTag(node)
isLLMTemplateTag(node) == isIdentifier(node.tag) /\ node.tag.text = "llm"

\* getSourceLocation(node, filePath): a site starts its line
getSourceLocation(node, filePath) ==
  [file |-> filePath, line |-> node.start, column |-> 1]

\* extractQueryInfo(node, filePath), as a list of none or one query; the
\* sites collected here have no second argument
extractQueryInfo(node, filePath) ==
  IF Len(node.arguments) = 0 THEN <<>>
  ELSE IF ~isStringLiteral(node.arguments[1]) THEN <<>>
  ELSE LET intent == node.arguments[1].value
           location == getSourceLocation(node, filePath)
       IN <<[id |-> generateQueryId(intent, NoParams, location),
             intent |-> intent, params |-> NoParams,
             location |-> location, sourceFile |-> filePath]>>

\* extractTemplateQueryInfo(node, filePath) of a tagged template
templateQueryInfo(node, filePath) ==
  LET info == extractTemplateQueryInfo(node.template,
                                       CHOOSE k \in SyntaxKinds : TRUE)
      location == getSourceLocation(node, filePath)
  IN <<[id |-> generateQueryId(info.intent, info.params, location),
        intent |-> info.intent, params |-> info.params,
        location |-> location, sourceFile |-> filePath]>>

\* The callback of forEachDescendant in collectQueries
visitNode(node, filePath) ==
  IF isCallExpression(node) /\ isDBLLMCall(node)
    THEN extractQueryInfo(node, filePath)
  ELSE IF node.kind = "TaggedTemplateExpression" /\ isLLMTemplateTag(node)
    THEN templateQueryInfo(node, filePath)
  ELSE <<>>

RECURSIVE visitAll(_, _, _)
visitAll(nodes, filePath, i) ==
  IF i > Len(nodes) THEN <<>>
  ELSE visitNode(nodes[i], filePath) \o visitAll(nodes, filePath, i + 1)

\* The loop of collectQueries over filePaths: addSourceFileAtPath is called
\* outside any try block and throws on a file that cannot be read; the
\* queries pushed so far are lost with the exception.
RECURSIVE collectLoop(_, _, _, _)
collectLoop(filePaths, fs, i, queries) ==
  IF i > Len(filePaths) THEN [threw |-> FALSE, queries |-> queries]
  ELSE LET sourceFile == fs[filePaths[i]] IN
    IF ~sourceFile.readable THEN [threw |-> TRUE]
    ELSE collectLoop(filePaths, fs, i + 1,
           queries \o visitAll(forEachDescendant(sourceFile), filePaths[i], 1))

\* Mutant: the files are gone through from the last to the first.
collectQueriesLastFirst(filePaths, fs) ==
  collectLoop([i \in 1..Len(filePaths) |-> filePaths[Len(filePaths) + 1 - i]],
              fs, 1, <<>>)

\* collectQueries(filePaths)
collectQueries(filePaths, fs) == collectLoop(filePaths, fs, 1, <<>>)

\* What can stand at one place of a file: db.llm("a"), llm`a`,
\* llmDB.llm(intent) with a variable, other.llm("a")
SiteForms == {"call", "template", "variable intent", "other object"}
SiteAt(form, start) ==
  CASE form = "call" -> MethodCall("db", "llm", <<StringLiteral(<<"a">>)>>,
                                   start)
    [] form = "template" -> TaggedTemplate("llm", <<"a">>, start)
    [] form = "variable intent" ->
         MethodCall("llmDB", "llm", <<Identifier("intent")>>, start)
    [] form = "other object" ->
         MethodCall("other", "llm", <<StringLiteral(<<"a">>)>>, start)

\* x.then(() => y)
ThenCall(x, y) ==
  CallExpression(
    [kind |-> "PropertyAccessExpression", expression |-> x, name |-> "then"],
    <<ArrowFunction(y)>>)

ReadableFile(statements) ==
  [kind |-> "Block", readable |-> TRUE, statements |-> statements]
UnreadableFile == [kind |-> "Block", readable |-> FALSE, statements |-> <<>>]

SourceFileContents ==
  {UnreadableFile, ReadableFile(<<>>)}
    \cup {ReadableFile(<<SiteAt(x, 1)>>) : x \in SiteForms}
    \cup {ReadableFile(<<SiteAt(x, 1), SiteAt(y, 2)>>) :
            x \in SiteForms, y \in SiteForms}
    \cup {ReadableFile(<<Block(<<SiteAt(x, 1)>>), SiteAt(y, 2)>>) :
            x \in SiteForms, y \in SiteForms}
    \cup {ReadableFile(<<ThenCall(SiteAt(x, 1), SiteAt(y, 2))>>) :
            x \in SiteForms, y \in SiteForms}

InitCollect ==
  /\ InitIdle
  /\ call \in [fn : {"collectQueries"},
               filePaths : SeqsUpTo(FilePaths, Cardinality(FilePaths)),
               fs : [FilePaths -> SourceFileContents]]
  /\ ret = NoRet

CollectQueries ==
  /\ ~ret.done
  /\ ret' = [done |-> TRUE, result |-> collectQueries(call.filePaths, call.fs)]
  /\ UNCHANGED <<call, cacheVars, buildVars>>

NextCollect == CollectQueries

SpecCollect == InitCollect /\ [][NextCollect]_vars

----------------------------------------------------------------------------
(* Claims about the query collector *)

\* Every node below a node, as a set
RECURSIVE NodesOf(_)
NodesOf(node) ==
  LET children == getChildren(node) IN
    {children[i] : i \in 1..Len(children)}
      \cup UNION {NodesOf(children[i]) : i \in 1..Len(children)}

\* A query site: X.llm("...") with X one of db and llmDB, or llm`...`
IsQuerySite(node) ==
  \/ /\ node.kind = "CallExpression"
     /\ node.expression.kind = "PropertyAccessExpression"
     /\ node.expression.name = "llm"
     /\ node.expression.expression.kind = "Identifier"
     /\ node.expression.expression.text \in {"db", "llmDB"}
     /\ Len(node.arguments) > 0
     /\ node.arguments[1].kind = "StringLiteral"
  \/ /\ node.kind = "TaggedTemplateExpression"
     /\ node.tag.kind = "Identifier" /\ node.tag.text = "llm"

SitePositions(sourceFile) ==
  {n.start : n \in {m \in NodesOf(sourceFile) : IsQuerySite(m)}}

RECURSIVE Ascending(_)
Ascending(S) ==
  IF S = {} THEN <<>>
  ELSE LET least == CHOOSE x \in S : \A y \in S : x <= y IN
    <<least>> \o Ascending(S \ {least})

\* The sites of the files, file after file in the order given, and by
\* position within a file
RECURSIVE SitesInOrder(_, _, _)
SitesInOrder(filePaths, fs, i) ==
  IF i > Len(filePaths) THEN <<>>
  ELSE LET lines == Ascending(SitePositions(fs[filePaths[i]])) IN
    [k \in 1..Len(lines) |-> <<filePaths[i], lines[k]>>]
      \o SitesInOrder(filePaths, fs, i + 1)

WhereFound(queries) ==
  [k \in 1..Len(queries) |->
     <<queries[k].sourceFile, queries[k].location.line>>]

\* C19: collectQueries returns the sites of filePaths[0] first, then those
\* of filePaths[1], and so on, each file's sites in traversal order, and
\* every recognized site of every given file is present.
C19_FileThenTraversalOrder ==
  (ret.done /\ ~ret.result.threw) =>
    WhereFound(ret.result.queries) = SitesInOrder(call.filePaths, call.fs, 1)

\* b.ts is given before a.ts; its two sites, one nested in the other's
\* chain, come first.
C19_Witness ==
  /\ ret.done /\ ~ret.result.threw
  /\ call.filePaths = <<"b.ts", "a.ts">>
  /\ WhereFound(ret.result.queries)
       = << <<"b.ts", 1>>, <<"b.ts", 2>>, <<"a.ts", 1>> >>
  /\ call.fs["b.ts"].statements[1].kind = "CallExpression"
  /\ call.fs["b.ts"].statements[1].expression.name = "then"

\* C20: an unreadable source file is skipped: collectQueries does not throw
\* and returns the queries of the files that can be read.
C20_UnreadableSkipped ==
  ret.done =>
    /\ ~ret.result.threw
    /\ WhereFound(ret.result.queries)
         = SitesInOrder(call.filePaths, call.fs, 1)

\* C20, for the schema: a schema path that cannot be read yields an empty
\* schema.
C20_EmptySchema ==
  (ret.done /\ ~call.readable) =>
    /\ ~ret.result.threw
    /\ ret.result.schema.tables = <<>>

----------------------------------------------------------------------------
(* Build time and run time on one template *)

\* C21: the pattern the runtime tag reconstructs from its strings and
\* values equals the intent the build-time collector derives for the same
\* template, so that the intentToId lookup finds the generated query.
C21_PatternAgrees ==
  (ret.done /\ ret.invoked) =>
    /\ ret.query.lookup.intentPattern = ret.query.intent
    /\ call.withMapping => ret.query.lookup.found

\* C21, the part the code keeps: a template with at most one interpolation
\* whose closing text does not begin with a brace.
C21_AtMostOneInterpolation ==
  (/\ ret.done /\ ret.invoked /\ Len(call.template.spans) <= 1
   /\ \A i \in 1..Len(call.template.spans) :
        ~StartsWith(call.template.spans[i].literal, <<"}">>)) =>
    ret.query.lookup.intentPattern = ret.query.intent

\* A template with one interpolation has been looked up and found.
C21_OneWitness ==
  /\ ret.done /\ ret.invoked /\ call.withMapping
  /\ Len(call.template.spans) = 1
  /\ ret.query.lookup.found

----------------------------------------------------------------------------
(* ConversationalQueryGenerator.generateQuery: core/query-generator.ts *)

maxRetries == 3

\* provider.chat rejects
ProviderFails == <<"provider error">>

\* What provider.chat can answer, as words; a code fence is one word
Responses ==
  { <<"SELECT", " ", "x">>,
    <<"fence sql", "SELECT", " ", "x", ";", "fence">>,
    <<"DROP TABLE", " ", "x">>,
    <<"UPDATE", " ", "x">>,
    <<"fence">> }

RECURSIVE withoutFences(_)
withoutFences(sql) ==
  IF sql = <<>> THEN <<>>
  ELSE IF sql[1] \in {"fence sql", "fence"} THEN withoutFences(Tail(sql))
  ELSE <<sql[1]>> \o withoutFences(Tail(sql))

\* cleanSQL(sql): fences out, trim, then one closing semicolon out; the
\* answers carry no comment
cleanSQL(sql) ==
  LET trimmed == Trim(withoutFences(sql)) IN
    IF trimmed # <<>> /\ trimmed[Len(trimmed)] = ";"
      THEN SubSeq(trimmed, 1, Len(trimmed) - 1)
      ELSE trimmed

ForbiddenWords ==
  {"DROP TABLE", "DELETE FROM", "TRUNCATE", "ALTER TABLE", "CREATE TABLE"}

\* validateSQL(sql): the message of the error it throws, "" when it passes
validateSQL(sql) ==
  IF Trim(sql) = <<>> THEN "Generated SQL is empty"
  ELSE IF \E i \in 1..Len(sql) : sql[i] \in ForbiddenWords
    THEN "Generated SQL contains forbidden operation"
  ELSE IF ~\E i \in 1..Len(sql) : sql[i] = "SELECT"
    THEN "Generated SQL must be a SELECT query"
  ELSE ""

\* One pass of the try block: the SQL returned, or the error caught
tryOnce(answer) ==
  IF answer = ProviderFails
    THEN [ok |-> FALSE, error |-> "provider error"]
  ELSE LET cleanedSQL == cleanSQL(answer) IN
    IF validateSQL(cleanedSQL) = ""
      THEN [ok |-> TRUE, sql |-> cleanedSQL]
      ELSE [ok |-> FALSE, error |-> validateSQL(cleanedSQL)]

\* ret is the call in progress: where it stands, the attempts that failed,
\* the timers it has waited for, and how it ended
InitGenerate ==
  /\ InitIdle
  /\ call \in [fn : {"generateQuery"}, schemaInitialized : BOOLEAN]
  /\ ret = [done |-> FALSE, pc |-> "called", attempt |-> 0, errors |-> <<>>,
            delays |-> <<>>, outcome |-> "none"]

\* if (!this.schema) throw
CheckSchema ==
  /\ ret.pc = "called"
  /\ ret' = IF call.schemaInitialized
              THEN [ret EXCEPT !.pc = "selecting"]
              ELSE [ret EXCEPT !.pc = "ended", !.done = TRUE,
                               !.outcome = "Schema not initialized"]
  /\ UNCHANGED <<call, cacheVars, buildVars>>

\* Stage 1: await this.provider.chat(tableSelectionMessages), outside the
\* retry loop and outside any try block
SelectTables ==
  /\ ret.pc = "selecting"
  /\ \E fails \in BOOLEAN :
       ret' = IF fails
                THEN [ret EXCEPT !.pc = "ended", !.done = TRUE,
                                 !.outcome = "provider error"]
                ELSE [ret EXCEPT !.pc = "attempting", !.attempt = 1]
  /\ UNCHANGED <<call, cacheVars, buildVars>>

\* One turn of the retry loop, up to the timer or the final throw
Attempt ==
  /\ ret.pc = "attempting"
  /\ \E answer \in Responses \cup {ProviderFails} :
       LET r == tryOnce(answer) IN
         ret' = IF r.ok
                  THEN [ret EXCEPT !.pc = "ended", !.done = TRUE,
                                   !.outcome = "returned"]
                         @@ [sql |-> r.sql]
                ELSE IF ret.attempt < maxRetries
                  THEN [ret EXCEPT !.pc = "sleeping",
                                   !.errors = Append(@, r.error),
                                   !.delays = Append(@, 1000 * ret.attempt)]
                ELSE [ret EXCEPT !.pc = "ended", !.done = TRUE,
                                 !.errors = Append(@, r.error),
                                 !.outcome = r.error]
  /\ UNCHANGED <<call, cacheVars, buildVars>>

\* The timer fires and the loop goes on.
Wake ==
  /\ ret.pc = "sleeping"
  /\ ret' = [ret EXCEPT !.pc = "attempting", !.attempt = @ + 1]
  /\ UNCHANGED <<call, cacheVars, buildVars>>

NextGenerate == CheckSchema \/ SelectTables \/ Attempt \/ Wake

SpecGenerate == InitGenerate /\ [][NextGenerate]_vars

Threw == ret.pc = "ended" /\ ret.outcome # "returned"

\* C22: generateQuery throws only when the schema is not initialized or
\* after maxRetries failed attempts; every provider or validation failure
\* is retried; a delay of 1000 * attempt ms follows each failed attempt but
\* the last; the error thrown is that of the last attempt.
C22_ThrowsOnlyAfterRetries ==
  /\ Threw =>
       \/ ~call.schemaInitialized
       \/ /\ Len(ret.errors) = maxRetries
          /\ ret.outcome = ret.errors[maxRetries]
  /\ ret.pc = "ended" =>
       ret.delays = [i \in 1..Len(ret.delays) |-> 1000 * i]

\* C22, the part the code keeps: once the tables are selected, the loop
\* retries every failure, returns the first answer that passes, waits
\* 1000 * attempt ms after each failed attempt but the last, and throws
\* the last error after maxRetries failures.
C22_RetryLoop ==
  (ret.pc = "ended" /\ ret.attempt >= 1) =>
    /\ ret.outcome = "returned" =>
         /\ Len(ret.errors) = ret.attempt - 1
         /\ Len(ret.errors) < maxRetries
         /\ validateSQL(ret.sql) = ""
         /\ ret.delays = [i \in 1..Len(ret.errors) |-> 1000 * i]
    /\ ret.outcome # "returned" =>
         /\ Len(ret.errors) = maxRetries
         /\ ret.outcome = ret.errors[maxRetries]
         /\ ret.delays = [i \in 1..(maxRetries - 1) |-> 1000 * i]

\* Two attempts failed, for different reasons, and the third returned.
C22_RetryWitness ==
  /\ ret.pc = "ended" /\ ret.outcome = "returned"
  /\ ret.errors = <<"provider error", "Generated SQL is empty">>
  /\ ret.delays = <<1000, 2000>>
  /\ ret.sql = <<"SELECT", " ", "x">>

----------------------------------------------------------------------------
(* QueryGenerator.generateQueriesConversational, step by step *)

\* The queries handed over: two typed sites and one without a return type
HandedQueries ==
  BuildSites \cup
    {[CollectedAt("f.ts", 3, <<"a">>) EXCEPT !.returnType = Undefined]}

\* Mutant: any failure makes the call throw.
throwsOnAnyFailure(failed, results) == Len(failed) > 0

\* if (failed.length > 0 && results.length === 0) throw
throwsAfterLoop(failed, results) == Len(failed) > 0 /\ Len(results) = 0

\* ret is the call in progress: i is the loop index, started the indexes
\* for which generateQuery was called, with the interrupt flag as it stood
InitGenerateAll ==
  /\ InitIdle
  /\ call \in [fn : {"generateQueriesConversational"},
               queries : SeqsUpTo(HandedQueries, MaxQueries)]
  /\ ret = [done |-> FALSE, pc |-> "loop", i |-> 0, interrupted |-> FALSE,
            started |-> <<>>, log |-> <<>>, results |-> <<>>,
            failed |-> <<>>, outcome |-> "none"]

\* handleInterrupt: SIGINT or SIGTERM arrives while the handler is set
Interrupt ==
  /\ ret.pc # "ended" /\ ~ret.interrupted
  /\ ret' = [ret EXCEPT !.interrupted = TRUE]
  /\ UNCHANGED <<call, cacheVars, buildVars>>

\* The head of the loop up to the await of generateQuery
StartQuery ==
  /\ ret.pc = "loop" /\ ret.i < Len(call.queries) /\ ~ret.interrupted
  /\ ret' = [ret EXCEPT
               !.pc = "generating",
               !.started = Append(@, [index |-> ret.i + 1,
                                      interrupted |-> ret.interrupted])]
  /\ UNCHANGED <<call, cacheVars, buildVars>>

\* generateQuery settles: the query is pushed to results, or to failed in
\* the catch block; then the next turn of the loop
SettleQuery ==
  /\ ret.pc = "generating"
  /\ \E ok \in BOOLEAN, sql \in GeneratedSql :
       LET query == call.queries[ret.i + 1] IN
         ret' = IF ok
                  THEN [ret EXCEPT !.pc = "loop", !.i = @ + 1,
                                   !.log = Append(@, "ok"),
                                   !.results = Append(@, Generated(query, sql))]
                  ELSE [ret EXCEPT !.pc = "loop", !.i = @ + 1,
                                   !.log = Append(@, "fail"),
                                   !.failed = Append(@, query)]
  /\ UNCHANGED <<call, cacheVars, buildVars>>

\* The loop ends, by its bound or by the break; then the throw or return
LeaveLoop ==
  /\ ret.pc = "loop" /\ (ret.i >= Len(call.queries) \/ ret.interrupted)
  /\ ret' = [ret EXCEPT
               !.pc = "ended", !.done = TRUE,
               !.outcome = IF throwsAfterLoop(ret.failed, ret.results)
                             THEN "threw" ELSE "returned"]
  /\ UNCHANGED <<call, cacheVars, buildVars>>

NextGenerateAll == Interrupt \/ StartQuery \/ SettleQuery \/ LeaveLoop

SpecGenerateAll == InitGenerateAll /\ [][NextGenerateAll]_vars

\* The indexes whose generateQuery succeeded, in input order
OkIndexes ==
  SelectSeq([k \in 1..Len(ret.log) |-> k], LAMBDA k : ret.log[k] = "ok")

----------------------------------------------------------------------------
(* The two copies of categorizeQueries *)

\* C24: for every list of current queries and every map of existing
\* queries, the build module's categorizeQueries and the plugin's return
\* the same validQueries, invalidQueries and changedQueries.
C24_SameBuckets ==
  ret.done =>
    categorizeQueries(call.currentQueries, call.existingQueries)
      = buildCategorizeQueries(call.currentQueries, call.existingQueries)

\* Auxiliary: the two copies agree whenever every entry looked up carries
\* an intent, and always on the invalid bucket.
C24_SameWithIntent ==
  ret.done =>
    /\ categorizeQueries(call.currentQueries,
                         call.existingQueries).invalidQueries
        = buildCategorizeQueries(call.currentQueries,
                                 call.existingQueries).invalidQueries
    /\ (\A k \in 1..Len(call.currentQueries) :
          HasEntry(call.existingQueries, call.currentQueries[k].id) =>
            Entry(call.existingQueries,
                  call.currentQueries[k].id).intent # <<>>) =>
        categorizeQueries(call.currentQueries, call.existingQueries)
          = buildCategorizeQueries(call.currentQueries,
                                   call.existingQueries)

----------------------------------------------------------------------------
(* The categorizer over entries generated from collected queries *)

\* The intents of the calls: db.llm(''), db.llm('a'), db.llm('b')
StoredIntents == {<<>>, <<"a">>, <<"b">>}

\* The collected queries: their ids are generateQueryId(intent, params,
\* location)
StoredSites ==
  {CollectedAt(f, l, t) : f \in SourceFiles, l \in BuildLines,
                          t \in StoredIntents}

\* Maps in which every entry is the generatedQuery of a collected query,
\* under its id and with its intent
StoredMaps ==
  { {Generated(q, sql) : q \in qs} : qs \in SUBSET StoredSites,
                                     sql \in GeneratedSql }

InitStored ==
  /\ call \in [fn : {"plugin.categorizeQueries", "build.categorizeQueries"},
               currentQueries : SeqsUpTo(StoredSites, MaxQueries),
               existingQueries : StoredMaps]
  /\ ret = NoRet
  /\ InitIdle

SpecStored == InitStored /\ [][NextCat]_vars

\* C25: when every id is generateQueryId(intent, params, location) and
\* every existing entry carries the intent it was generated from, no
\* collected query is categorized as changed.
C25_NeverChanged ==
  ret.done => ret.buckets.changedQueries = <<>>

\* Auxiliary: the same for the queries whose intent is not empty, and for
\* the build module's copy of the function.
C25_NeverChangedWithIntent ==
  ret.done =>
    /\ \A k \in 1..Len(ret.buckets.changedQueries) :
         ret.buckets.changedQueries[k].intent = <<>>
    /\ call.fn = "build.categorizeQueries" =>
         ret.buckets.changedQueries = <<>>

----------------------------------------------------------------------------
(* has and get of the cache store, and of the legacy cache store *)

\* has(queryId, intent) of the legacy store: existsSync(cacheFile)
legacyHasValue(enabled, dir, cacheKey) ==
  IF ~enabled THEN FALSE ELSE dir[cacheKey].exists

\* get(queryId, intent) of the legacy store: cacheEntry.query, null when
\* the file is not there or cannot be read or parsed
legacyGetValue(enabled, dir, cacheKey) ==
  IF ~enabled THEN Absent
  ELSE LET cacheFile == dir[cacheKey] IN
    IF ~cacheFile.exists THEN Absent
    ELSE IF ~cacheFile.parses THEN Absent
    ELSE IF "query" \notin DOMAIN cacheFile THEN Absent
    ELSE [found |-> TRUE, query |-> ParseQuery(cacheFile.query)]

\* The environment: a cache file is overwritten with the text {}.
Overwrite ==
  /\ \E k \in DOMAIN files :
       /\ files[k].exists
       /\ files' = [files EXCEPT ![k] = EmptyObjectFile]
  /\ UNCHANGED <<now, ticks, dirExists, lastSet, lastOp, faults, pureVars,
                 buildVars>>

\* The cache store with the clock moving and entries being corrupted.
NextCacheCorrupt ==
  \/ CacheConstruct
  \/ CacheGet
  \/ CacheSet
  \/ CacheHas
  \/ CacheClear
  \/ CacheGetStats
  \/ Tick
  \/ Damage
  \/ Overwrite

SpecCacheCorrupt == InitCache /\ [][NextCacheCorrupt]_vars

\* has and get of the cache store agree on one key
Agree(enabled, i, t, p) ==
  hasValue(enabled, files, now, i, t, p)
    <=> getValue(enabled, files, now, i, t, p).found

\* has and get of the legacy store agree on one key
LegacyAgree(enabled, k) ==
  legacyHasValue(enabled, files, k) <=> legacyGetValue(enabled, files, k).found

\* C26: in every reachable state of the cache, for every (id, intent,
\* params), has is true iff get returns a GeneratedQuery; for the cache
\* store and for the legacy one.
C26_HasGetAgree ==
  /\ \A enabled \in BOOLEAN, i \in CacheIds, t \in CacheIntents,
        p \in CacheParams : Agree(enabled, i, t, p)
  /\ \A enabled \in BOOLEAN, k \in CacheKeys : LegacyAgree(enabled, k)

\* Auxiliary: the cache store agrees on every key whose file is not a
\* JSON text without a query, the legacy store on every key whose file is
\* as set wrote it.
C26_AgreeOnOtherFiles ==
  /\ \A enabled \in BOOLEAN, i \in CacheIds, t \in CacheIntents,
        p \in CacheParams :
       files[generateCacheKey(i, t, p)] # EmptyObjectFile =>
         Agree(enabled, i, t, p)
  /\ \A enabled \in BOOLEAN, k \in CacheKeys :
       files[k] \notin {EmptyObjectFile, DamagedFile} =>
         LegacyAgree(enabled, k)

\* Auxiliary, refuted: the cache store alone agrees on every key.
C26_StoreAgrees ==
  \A enabled \in BOOLEAN, i \in CacheIds, t \in CacheIntents,
     p \in CacheParams : Agree(enabled, i, t, p)

\* Auxiliary, refuted: the legacy store agrees on every key whose file is
\* not a JSON text without a query.
C26_LegacyAgreesUnparseable ==
  \A enabled \in BOOLEAN, k \in CacheKeys :
    files[k] # EmptyObjectFile => LegacyAgree(enabled, k)

----------------------------------------------------------------------------
(* What a build writes *)

\* The number of entries of a list of generated queries under one id
CountOf(queries, id) ==
  Cardinality({i \in 1..Len(queries) : queries[i].id = id})

\* C27: after a build that returns without throwing and writes its
\* output, the output holds exactly one GeneratedQuery for every collected
\* query id and none for an id that is not in the current source.
C27_OutputCoversSource ==
  (lastBuild.kind = "generated" /\ lastBuild.wrote) =>
    /\ \A q \in Range(source) : CountOf(lastBuild.all, q.id) = 1
    /\ Ids(lastBuild.all) \subseteq Ids(source)
    /\ lastBuild.driver = "plugin" => outputFile.queries = lastBuild.all

\* Auxiliary: the output never holds an id twice or an id that is not in
\* the source, and it holds every collected id when the generator returned
\* a query for each one handed to it.
C27_OutputWithinSource ==
  (lastBuild.kind = "generated" /\ lastBuild.wrote) =>
    /\ \A q \in Range(source) : CountOf(lastBuild.all, q.id) <= 1
    /\ Ids(lastBuild.all) \subseteq Ids(source)
    /\ Len(lastBuild.newly) = Len(lastBuild.handed) =>
         \A q \in Range(source) : CountOf(lastBuild.all, q.id) = 1

----------------------------------------------------------------------------
(* From config.paths.queries to the list handed to the generator *)

\* The patterns of config.paths.queries
QueryPatterns == {"a.ts", "b.ts", "*.ts"}

\* glob(pattern, { cwd }): the files the pattern matches
glob(pattern) == IF pattern = "*.ts" THEN <<"a.ts", "b.ts">> ELSE <<pattern>>

\* for (const pattern of queryFiles) resolvedPaths.push(...files)
RECURSIVE resolvePaths(_)
resolvePaths(patterns) ==
  IF patterns = <<>> THEN <<>>
  ELSE glob(Head(patterns)) \o resolvePaths(Tail(patterns))

\* The head of buildQueries and of generateQueries on a first build: the
\* paths resolved, the queries collected, and the list for the generator
collectForBuild(patterns, fs, driver) ==
  LET resolvedPaths == resolvePaths(patterns)
      collected == collectQueries(resolvedPaths, fs)
  IN IF collected.threw
       THEN [done |-> TRUE, threw |-> TRUE, resolvedPaths |-> resolvedPaths]
       ELSE [done |-> TRUE, threw |-> FALSE, resolvedPaths |-> resolvedPaths,
             allQueries |-> collected.queries,
             handed |-> queriesToGenerate(
                          IF driver = "cli"
                            THEN buildCategorizeQueries(collected.queries, {})
                            ELSE categorizeQueries(collected.queries, {}))]

InitResolve ==
  /\ InitIdle
  /\ call \in [fn : {"collectForBuild"},
               driver : {"cli", "plugin"},
               patterns : SeqsUpTo(QueryPatterns, MaxPatterns) \ {<<>>},
               fs : [FilePaths -> SourceFileContents]]
  /\ ret = NoRet

CollectForBuild ==
  /\ ~ret.done
  /\ ret' = collectForBuild(call.patterns, call.fs, call.driver)
  /\ UNCHANGED <<call, cacheVars, buildVars>>

NextResolve == CollectForBuild

SpecResolve == InitResolve /\ [][NextResolve]_vars

\* C28: the list handed to the generator holds each query id at most once,
\* whatever the list of patterns, patterns that resolve to the same file
\* included.
C28_NoIdTwice ==
  (ret.done /\ ~ret.threw) =>
    \A i, j \in 1..Len(ret.handed) :
      ret.handed[i].id = ret.handed[j].id => i = j

\* Auxiliary: the same when no file is resolved twice.
C28_NoIdTwiceDistinctFiles ==
  (/\ ret.done /\ ~ret.threw
   /\ \A i, j \in 1..Len(ret.resolvedPaths) :
        ret.resolvedPaths[i] = ret.resolvedPaths[j] => i = j) =>
    \A i, j \in 1..Len(ret.handed) :
      ret.handed[i].id = ret.handed[j].id => i = j

----------------------------------------------------------------------------
(* Parameter counts: QueryGenerator.extractParameters and
   QueryValidator.validateSyntax *)

\* The longest SQL text, in characters
MaxSql == 4

SqlChars == {"s", " ", "$", "0", "1", "2"}

DigitChars == {"0", "1", "2"}
DigitValue(c) == CASE c = "0" -> 0 [] c = "1" -> 1 [] c = "2" -> 2

\* The end of the run of digits that begins at position i (i - 1 if none)
RECURSIVE digitsEnd(_, _)
digitsEnd(sql, i) ==
  IF i <= Len(sql) /\ sql[i] \in DigitChars THEN digitsEnd(sql, i + 1)
  ELSE i - 1

\* parseInt(match[1], 10) of the digits sql[i..j]
RECURSIVE parseDigits(_, _, _, _)
parseDigits(sql, i, j, acc) ==
  IF i > j THEN acc
  ELSE parseDigits(sql, i + 1, j, acc * 10 + DigitValue(sql[i]))

\* The matches of /\$(\d+)/g in the text from position i on, left to
\* right: the number of each
RECURSIVE placeholderMatches(_, _)
placeholderMatches(sql, i) ==
  IF i > Len(sql) THEN <<>>
  ELSE IF sql[i] = "$" /\ digitsEnd(sql, i + 1) > i
    THEN <<parseDigits(sql, i + 1, digitsEnd(sql, i + 1), 0)>>
           \o placeholderMatches(sql, digitsEnd(sql, i + 1) + 1)
    ELSE placeholderMatches(sql, i + 1)

\* The while loop of extractParameters: params as the set of the array
\* indexes that hold a name; params[-1] is a property, not an element
RECURSIVE filledIndexes(_, _, _)
filledIndexes(matches, k, params) ==
  IF k > Len(matches) THEN params
  ELSE filledIndexes(matches, k + 1,
         IF matches[k] - 1 >= 0 THEN params \cup {matches[k] - 1}
         ELSE params)

\* params.filter(Boolean): the names of the filled indexes, in index order
RECURSIVE filterBoolean(_)
filterBoolean(params) ==
  IF params = {} THEN <<>>
  ELSE LET first == CHOOSE x \in params : \A y \in params : x <= y
       IN <<[name |-> "param", number |-> first + 1]>>
            \o filterBoolean(params \ {first})

\* Mutant: one name for every match.
extractParametersPerMatch(sql) ==
  LET matches == placeholderMatches(sql, 1) IN
  [k \in 1..Len(matches) |-> [name |-> "param", number |-> matches[k]]]

\* extractParameters(sql)
extractParameters(sql) ==
  filterBoolean(filledIndexes(placeholderMatches(sql, 1), 1, {}))

\* expectedParams of validateSyntax: the number of matches of /\$\d+/g
expectedParams(sql) == Len(placeholderMatches(sql, 1))

\* The parameter check of validateSyntax: is the mismatch error pushed
countMismatch(sql, parameters) == expectedParams(sql) # Len(parameters)

InitParams ==
  /\ InitIdle
  /\ call \in [fn : {"extractParameters"}, sql : SeqsUpTo(SqlChars, MaxSql)]
  /\ ret = NoRet

\* The generator builds the parameter list of a reply; the validator of
\* the plugin then checks the generated query.
GenerateAndValidate ==
  /\ ~ret.done
  /\ LET parameters == extractParameters(call.sql) IN
       ret' = [done |-> TRUE, parameters |-> parameters,
               expectedParams |-> expectedParams(call.sql),
               mismatch |-> countMismatch(call.sql, parameters)]
  /\ UNCHANGED <<call, cacheVars, buildVars>>

NextParams == GenerateAndValidate

SpecParams == InitParams /\ [][NextParams]_vars

\* C29: for every SQL text the list extractParameters returns has the
\* length validateSyntax expects, so that no freshly generated query gets
\* the parameter count mismatch error; repeated and skipped placeholder
\* numbers included.
C29_CountsAgree ==
  ret.done =>
    /\ Len(ret.parameters) = ret.expectedParams
    /\ ~ret.mismatch

\* Auxiliary: the counts agree when no placeholder number occurs twice and
\* none is $0; a skipped number does no harm.
C29_CountsAgreeNoRepeat ==
  LET matches == placeholderMatches(call.sql, 1) IN
  (/\ ret.done
   /\ \A i, j \in 1..Len(matches) : matches[i] = matches[j] => i = j
   /\ \A i \in 1..Len(matches) : matches[i] # 0) =>
    /\ Len(ret.parameters) = ret.expectedParams
    /\ ~ret.mismatch

\* Reached: $2 alone, the number 1 skipped, and the counts agree.
C29_SkipWitness ==
  /\ ret.done
  /\ call.sql = <<"$", "2">>
  /\ ret.parameters = <<[name |-> "param", number |-> 2]>>
  /\ ~ret.mismatch

====
